---- MODULE Spec2Model ----
(***************************************************************************)
(* Memory orchestrator and ingest pipeline.                                *)
(*                                                                         *)
(* Part I   ingest pipeline: the two ingest endpoints (producer), the      *)
(*          INGEST work-queue stream with its durable pull consumer, and   *)
(*          the ingest worker (run / handle_message) over the job table.   *)
(* Part II  session store: ensure_session, the promoter (maybe_promote,    *)
(*          _summarize_and_store, _promote_to_archival), delete_session.   *)
(* Part III chat path: the memory composer (_build_augmented_messages),    *)
(*          the streaming proxy (chat_completion_stream) and the handler   *)
(*          chat_completions with the short-term buffer.                   *)
(***************************************************************************)
EXTENDS Integers, Sequences, FiniteSets, TLC

(***************************************************************************)
(* Bounds and program constants                                            *)
(***************************************************************************)

\* settings.max_redeliveries (R)
max_redeliveries == 3

\* bound on the deliveries of one message (the consumer is created without
\* max_deliver, so the broker itself never stops redelivering)
MaxDeliveries == 4

Workers == {"w1", "w2"}

\* one upload request per job id (the endpoint draws a fresh uuid for each)
Jobs == {"j1"}

\* messages put on ingest.> by someone other than the ingest endpoints
Foreign == {"p1"}

Msgs == Jobs \cup Foreign

JobTypes == {"document", "codebase"}

\* uploaded content: an archive with at least one eligible file, or anything
\* else (_extract_archive returns [] for it)
Contents == {"archive", "other"}

\* payloads of foreign messages: bytes that are not UTF-8, text that is not
\* JSON, JSON that is not an object, an object without job_id, and a
\* well-formed payload naming a job id that has no row
Malformed == {"undecodable", "notjson", "nonobject", "nojobid"}
ForeignPayloads == Malformed \cup {"ghost"}

\* settings.promote_after_turns (P) and settings.archival_after_turns (A)
promote_after_turns == 10
archival_after_turns == 20

Sessions == {"s1", "s2"}

\* workspaces a chat request can derive (derive_workspace)
Workspaces == {"wa", "wb"}

\* background tasks running maybe_promote
Tasks == {"t1", "t2"}

\* bound on the rows of one session in orchestrator_messages
MaxMessages == 1

\* turn counts handed to maybe_promote: below P, a multiple of P that is not
\* one of A, a multiple of both
TurnCounts == {1, promote_after_turns, archival_after_turns}

VARIABLES
    blob,        \* orchestrator_documents: doc of request j -> "none" or its content
    jobs,        \* orchestrator_ingest_jobs: j -> row
    req,         \* position of the ingest endpoint handling request j
    msgState,    \* broker: m -> unpublished / pending / inflight / acked / termed
    payload,     \* broker: m -> payload kind
    deliveries,  \* broker: m -> number of deliveries so far
    netUp,       \* whether the preprocessor answers /ingest successfully
    wk,          \* worker w -> [pc, msg, jtype, snap, out]
    started,     \* history: j -> number of mark_job_started executed
    missed,      \* history: ids for which get_job or get_document_blob found no row
    sessions,    \* orchestrator_sessions: s -> row
    msglog,      \* orchestrator_messages: s -> number of rows of session s
    task,        \* promoter task t -> [pc, sid, ws, turns, nested]
    chat,        \* chat request r -> position and locals of chat_completions
    turns,       \* short-term buffer: s -> length of the list session:<s>
    comp,        \* one call of _build_augmented_messages: inputs and result
    strm,        \* one run of chat_completion_stream: backend lines and frames
    conv,        \* concurrent chat requests on one session: both logs as lists
    san,         \* one call of _sanitize: argument and result
    cb,          \* one call of process_codebase: extracted files, batches, result
    arch,        \* one call of _extract_archive: members read, files kept
    ext,         \* one call of parse_file: tree walk, entities, relationships
    sd,          \* the ingest worker process: run loop, shutdown flag, cleanup
    tc,          \* one session over several chat requests: turn count, promoter calls
    cap,         \* one streaming response: frames sent, content collected, tail
    rt,          \* one chat request up to its session: model alias, writes done
    pt,          \* one call of _extract_code_from_plaintext: scan and blocks
    kg           \* the patched KG store: context of each request, marked workspaces

ingestVars == <<blob, jobs, req, msgState, payload, deliveries, netUp, wk,
                started, missed>>
sessionVars == <<sessions, msglog, task>>
chatVars == <<chat, turns, comp, strm>>
unitVars == <<conv, san, cb, arch, ext>>
lateVars == <<sd, tc, cap, rt, pt, kg>>
vars == <<blob, jobs, req, msgState, payload, deliveries, netUp, wk,
          started, missed, sessions, msglog, task, chat, turns, comp, strm,
          conv, san, cb, arch, ext, sd, tc, cap, rt, pt, kg>>

(***************************************************************************)
(* Part I.a  job rows                                                      *)
(***************************************************************************)

NoRow == [status |-> "absent", jtype |-> "none", attempts |-> 0,
          error |-> "null", result |-> "empty"]

\* INSERT INTO orchestrator_ingest_jobs (id, doc_id, workspace, job_type, status)
\* attempts, error and result take the column defaults
NewRow(t) == [status |-> "queued", jtype |-> t, attempts |-> 0,
              error |-> "null", result |-> "empty"]

\* an UPDATE ... WHERE id = $1 changes nothing when there is no such row
UpdateRow(j, r) == IF jobs[j].status = "absent" THEN jobs
                   ELSE [jobs EXCEPT ![j] = r]

mark_job_started(j) ==
    UpdateRow(j, [jobs[j] EXCEPT !.status = "processing",
                                 !.attempts = jobs[j].attempts + 1])

mark_job_completed(j, result) ==
    UpdateRow(j, [jobs[j] EXCEPT !.status = "completed", !.result = result])

mark_job_failed(j, error) ==
    UpdateRow(j, [jobs[j] EXCEPT !.status = "failed", !.error = error])

reset_job_queued(j) ==
    UpdateRow(j, [jobs[j] EXCEPT !.status = "queued"])

(***************************************************************************)
(* Part I.b  producer: POST /v1/documents/ingest, POST /v1/codebase/ingest *)
(***************************************************************************)

IdleReq == [pc |-> "idle", jtype |-> "none"]

\* the request has stored its blob and is about to insert the job row
JobInsertReady(j) == req[j].pc = "blob_stored"

\* the request has inserted the job row and is about to publish
PublishReadyEarly(j) == req[j].pc \in {"blob_stored", "job_stored"}
PublishReady(j) == req[j].pc = "job_stored"

\* INSERT INTO orchestrator_documents: request j of type t uploads content c
InsertBlob(j, t, c) ==
    /\ req[j].pc = "idle"
    /\ blob' = [blob EXCEPT ![j] = c]
    /\ req' = [req EXCEPT ![j] = [pc |-> "blob_stored", jtype |-> t]]
    /\ UNCHANGED <<jobs, msgState, payload, deliveries, netUp, wk, started,
                   missed, sessionVars, chatVars, unitVars, lateVars>>

\* INSERT INTO orchestrator_ingest_jobs ... "queued"
InsertJob(j) ==
    /\ JobInsertReady(j)
    /\ jobs' = [jobs EXCEPT ![j] = NewRow(req[j].jtype)]
    /\ req' = [req EXCEPT ![j].pc = "job_stored"]
    /\ UNCHANGED <<blob, msgState, payload, deliveries, netUp, wk, started,
                   missed, sessionVars, chatVars, unitVars, lateVars>>

\* publish_ingest_job(job_id, job_type): payload {job_id, type} on ingest.<type>
publish_ingest_job(j) ==
    /\ PublishReady(j)
    /\ msgState' = [msgState EXCEPT ![j] = "pending"]
    /\ payload' = [payload EXCEPT ![j] = [kind |-> "valid", jtype |-> req[j].jtype]]
    /\ req' = [req EXCEPT ![j].pc = "done"]
    /\ UNCHANGED <<blob, jobs, deliveries, netUp, wk, started, missed, sessionVars, chatVars,
                   unitVars, lateVars>>

\* one of the awaited calls of the endpoint raises (database or broker not
\* reachable): the exception leaves the handler, nothing is undone
EndpointFails(j) ==
    /\ req[j].pc \in {"idle", "blob_stored", "job_stored"}
    /\ req' = [req EXCEPT ![j].pc = "error"]
    /\ UNCHANGED <<blob, jobs, msgState, payload, deliveries, netUp, wk,
                   started, missed, sessionVars, chatVars, unitVars,
                 lateVars>>

Producer ==
    \E j \in Jobs :
        \/ \E t \in JobTypes, c \in Contents : InsertBlob(j, t, c)
        \/ InsertJob(j)
        \/ publish_ingest_job(j)
        \/ EndpointFails(j)

(***************************************************************************)
(* Part I.c  broker: stream INGEST, durable pull consumer ingest-worker    *)
(***************************************************************************)

Live(m) == msgState[m] \in {"pending", "inflight"}

\* msg.ack(): the message leaves the work queue
AckMsg(m) == IF Live(m) THEN [msgState EXCEPT ![m] = "acked"] ELSE msgState

\* msg.term(): the message is never delivered again
TermMsg(m) == IF Live(m) THEN [msgState EXCEPT ![m] = "termed"] ELSE msgState

\* msg.nak(): the message is made available for redelivery
NakMsg(m) == IF Live(m) THEN [msgState EXCEPT ![m] = "pending"] ELSE msgState

\* a message that is neither acked, nak'ed nor terminated within the
\* ack-wait is made available again, whether or not its handler still runs
AckWaitExpire(m) ==
    /\ msgState[m] = "inflight"
    /\ msgState' = [msgState EXCEPT ![m] = "pending"]
    /\ UNCHANGED <<blob, jobs, req, payload, deliveries, netUp, wk, started,
                   missed, sessionVars, chatVars, unitVars, lateVars>>

\* somebody else publishes on ingest.>
PublishForeign(m, k) ==
    /\ msgState[m] = "unpublished"
    /\ msgState' = [msgState EXCEPT ![m] = "pending"]
    /\ payload' = [payload EXCEPT ![m] = [kind |-> k, jtype |-> "document"]]
    /\ UNCHANGED <<blob, jobs, req, deliveries, netUp, wk, started, missed, sessionVars, chatVars,
                   unitVars, lateVars>>

\* the preprocessor goes down or comes back
NetFlip ==
    /\ netUp' = ~netUp
    /\ UNCHANGED <<blob, jobs, req, msgState, payload, deliveries, wk,
                   started, missed, sessionVars, chatVars, unitVars,
                 lateVars>>

(***************************************************************************)
(* Part I.d  processor: process_document, process_codebase                 *)
(***************************************************************************)

Ok(v) == [ok |-> TRUE, val |-> v]
Raise(e) == [ok |-> FALSE, val |-> e]

\* process_document(job_id, doc_id, preprocessor_url): b is the blob row of
\* the job ("none" when there is no row), up whether the POST to /ingest
\* succeeds (raise_for_status raises otherwise)
process_document(b, up) ==
    IF b = "none" THEN Raise("blob_missing")
    ELSE IF ~up THEN Raise("preprocessor")
    ELSE Ok("sent")

\* process_codebase(job_id, doc_id, preprocessor_url, batch_size): a failed
\* batch is caught inside the loop and recorded in errors, the result
\* {files_found, documents_sent, errors} is returned all the same
process_codebase(b, up) ==
    IF b = "none" THEN Raise("blob_missing")
    ELSE IF b = "other" THEN Raise("extract")
    ELSE IF ~up THEN Ok("all_batches_failed")
    ELSE Ok("sent")

(***************************************************************************)
(* Part I.e  ingest worker: run, handle_message                            *)
(***************************************************************************)

IdleWorker == [pc |-> "idle", msg |-> "none", jtype |-> "none", snap |-> 0,
               out |-> "none"]

\* json.loads(msg.data.decode()); payload["job_id"] under
\* except (json.JSONDecodeError, KeyError): "term" when the except clause
\* catches, "raise" when the exception leaves handle_message
\* (UnicodeDecodeError for bytes that do not decode, TypeError for a JSON
\* value that is not an object)
ParsePayload(k) ==
    CASE k \in {"valid", "ghost"} -> "ok"
      [] k \in {"notjson", "nojobid"} -> "term"
      [] OTHER -> "raise"

\* get_job(job_id): the row, or NoRow for an id the table does not hold
Row(m) == IF m \in Jobs THEN jobs[m] ELSE NoRow

\* attempts >= settings.max_redeliveries
TerminalFailureOffByOne(attempts) == attempts > max_redeliveries
TerminalFailure(attempts) == attempts >= max_redeliveries

\* sub.fetch(batch=1, timeout=5) hands message m to worker w
Fetch(w, m) ==
    /\ wk[w].pc = "idle"
    /\ msgState[m] = "pending"
    /\ deliveries[m] < MaxDeliveries
    /\ msgState' = [msgState EXCEPT ![m] = "inflight"]
    /\ deliveries' = [deliveries EXCEPT ![m] = @ + 1]
    /\ wk' = [wk EXCEPT ![w] = [IdleWorker EXCEPT !.pc = "parse", !.msg = m]]
    /\ UNCHANGED <<blob, jobs, req, payload, netUp, started, missed,
                   sessionVars, chatVars, unitVars, lateVars>>

\* handle_message, lines 44-51
Parse(w) ==
    /\ wk[w].pc = "parse"
    /\ LET m == wk[w].msg
           r == ParsePayload(payload[m].kind)
       IN  /\ wk' = [wk EXCEPT ![w] =
                        IF r = "ok"
                        THEN [@ EXCEPT !.pc = "get_job", !.jtype = payload[m].jtype]
                        ELSE IdleWorker]
           /\ msgState' = IF r = "term" THEN TermMsg(m) ELSE msgState
    /\ UNCHANGED <<blob, jobs, req, payload, deliveries, netUp, started,
                   missed, sessionVars, chatVars, unitVars, lateVars>>

\* handle_message, lines 55-64: get_job and, for a missing or completed row,
\* the term or ack that follows it
GetJob(w) ==
    /\ wk[w].pc = "get_job"
    /\ LET m == wk[w].msg
           job == Row(m)
       IN  CASE job.status = "absent" ->
                  /\ msgState' = TermMsg(m)
                  /\ missed' = missed \cup {m}
                  /\ wk' = [wk EXCEPT ![w] = IdleWorker]
             [] job.status = "completed" ->
                  /\ msgState' = AckMsg(m)
                  /\ wk' = [wk EXCEPT ![w] = IdleWorker]
                  /\ UNCHANGED missed
             [] OTHER ->
                  /\ wk' = [wk EXCEPT ![w].pc = "start", ![w].snap = job.attempts]
                  /\ UNCHANGED <<msgState, missed, unitVars, lateVars>>
    /\ UNCHANGED <<blob, jobs, req, payload, deliveries, netUp, started,
                   sessionVars, chatVars, unitVars, lateVars>>

\* handle_message, line 66
MarkStarted(w) ==
    /\ wk[w].pc = "start"
    /\ jobs' = mark_job_started(wk[w].msg)
    /\ started' = [started EXCEPT ![wk[w].msg] = @ + 1]
    /\ wk' = [wk EXCEPT ![w].pc = "process"]
    /\ UNCHANGED <<blob, req, msgState, payload, deliveries, netUp, missed, sessionVars, chatVars,
                   unitVars, lateVars>>

\* handle_message, lines 68-76 (and the raise into line 82)
Process(w) ==
    /\ wk[w].pc = "process"
    /\ LET j == wk[w].msg
           r == IF wk[w].jtype = "codebase"
                THEN process_codebase(blob[j], netUp)
                ELSE process_document(blob[j], netUp)
       IN  /\ wk' = [wk EXCEPT ![w].pc = IF r.ok THEN "complete" ELSE "fail",
                               ![w].out = r.val]
           /\ missed' = IF blob[j] = "none" THEN missed \cup {j} ELSE missed
    /\ UNCHANGED <<blob, jobs, req, msgState, payload, deliveries, netUp,
                   started, sessionVars, chatVars, unitVars, lateVars>>

\* handle_message, line 78
Complete(w) ==
    /\ wk[w].pc = "complete"
    /\ jobs' = mark_job_completed(wk[w].msg, wk[w].out)
    /\ wk' = [wk EXCEPT ![w].pc = "ack"]
    /\ UNCHANGED <<blob, req, msgState, payload, deliveries, netUp, started,
                   missed, sessionVars, chatVars, unitVars, lateVars>>

\* handle_message, line 79
Ack(w) ==
    /\ wk[w].pc = "ack"
    /\ msgState' = AckMsg(wk[w].msg)
    /\ wk' = [wk EXCEPT ![w] = IdleWorker]
    /\ UNCHANGED <<blob, jobs, req, payload, deliveries, netUp, started,
                   missed, sessionVars, chatVars, unitVars, lateVars>>

\* handle_message, lines 84-86 and 90: attempts is computed from the row as
\* get_job read it at line 55
MarkFailed(w) ==
    /\ wk[w].pc = "fail"
    /\ jobs' = mark_job_failed(wk[w].msg, wk[w].out)
    /\ wk' = [wk EXCEPT ![w].pc = IF TerminalFailure(wk[w].snap + 1)
                                  THEN "term" ELSE "reset"]
    /\ UNCHANGED <<blob, req, msgState, payload, deliveries, netUp, started,
                   missed, sessionVars, chatVars, unitVars, lateVars>>

\* handle_message, line 87
Term(w) ==
    /\ wk[w].pc = "term"
    /\ msgState' = TermMsg(wk[w].msg)
    /\ wk' = [wk EXCEPT ![w] = IdleWorker]
    /\ UNCHANGED <<blob, jobs, req, payload, deliveries, netUp, started,
                   missed, sessionVars, chatVars, unitVars, lateVars>>

\* handle_message, line 91
ResetQueued(w) ==
    /\ wk[w].pc = "reset"
    /\ jobs' = reset_job_queued(wk[w].msg)
    /\ wk' = [wk EXCEPT ![w].pc = "nak"]
    /\ UNCHANGED <<blob, req, msgState, payload, deliveries, netUp, started,
                   missed, sessionVars, chatVars, unitVars, lateVars>>

\* handle_message, line 92
Nak(w) ==
    /\ wk[w].pc = "nak"
    /\ msgState' = NakMsg(wk[w].msg)
    /\ wk' = [wk EXCEPT ![w] = IdleWorker]
    /\ UNCHANGED <<blob, jobs, req, payload, deliveries, netUp, started,
                   missed, sessionVars, chatVars, unitVars, lateVars>>

\* the worker stops between two steps of handle_message: the process is
\* killed and restarted, or an awaited database or broker call raises and
\* the exception is caught by the loop of run (lines 120-122); the message
\* is left without ack, nak or term
Stop(w) ==
    /\ wk[w].pc # "idle"
    /\ wk' = [wk EXCEPT ![w] = IdleWorker]
    /\ UNCHANGED <<blob, jobs, req, msgState, payload, deliveries, netUp,
                   started, missed, sessionVars, chatVars, unitVars,
                 lateVars>>

HandleMessage(w) ==
    \/ Parse(w)
    \/ GetJob(w)
    \/ MarkStarted(w)
    \/ Process(w)
    \/ Complete(w)
    \/ Ack(w)
    \/ MarkFailed(w)
    \/ Term(w)
    \/ ResetQueued(w)
    \/ Nak(w)

Run(w) == (\E m \in Msgs : Fetch(w, m)) \/ HandleMessage(w)

Broker == \E m \in Msgs : AckWaitExpire(m)

Intruder == \E m \in Foreign, k \in ForeignPayloads : PublishForeign(m, k)

(***************************************************************************)
(* Part II.a  session store: recall_memory                                 *)
(***************************************************************************)

NoSession == [present |-> FALSE, workspace |-> "none", summary |-> "null",
              summary_vector |-> "null"]

\* INSERT INTO orchestrator_sessions (id, workspace, model) ...
\* ON CONFLICT (id) DO UPDATE SET updated_at = now()
\* an existing row keeps its workspace and model
ensure_session_row(s, ws) ==
    IF sessions[s].present THEN sessions
    ELSE [sessions EXCEPT ![s] = [present |-> TRUE, workspace |-> ws,
                                  summary |-> "null", summary_vector |-> "null"]]

\* UPDATE orchestrator_sessions SET summary = $2, summary_vector = $3 ...
\* WHERE id = $1: one statement, no row changed when the session is gone
update_session_summary_split(s, summary, vector) ==
    IF sessions[s].present
    THEN [sessions EXCEPT ![s].summary = summary]
    ELSE sessions
update_session_summary(s, summary, vector) ==
    IF sessions[s].present
    THEN [sessions EXCEPT ![s].summary = summary, ![s].summary_vector = vector]
    ELSE sessions

\* chat_completions, step 3
ensure_session(s, ws) ==
    /\ sessions' = ensure_session_row(s, ws)
    /\ UNCHANGED <<msglog, task, ingestVars, chatVars, unitVars, lateVars>>

\* store_message: INSERT INTO orchestrator_messages (the foreign key rejects
\* a session id that has no row)
store_message(s) ==
    /\ sessions[s].present
    /\ msglog[s] < MaxMessages
    /\ msglog' = [msglog EXCEPT ![s] = @ + 1]
    /\ UNCHANGED <<sessions, task, ingestVars, chatVars, unitVars, lateVars>>

\* DELETE /v1/sessions/{id}: the messages go with the row (ON DELETE CASCADE)
delete_session(s) ==
    /\ sessions[s].present
    /\ sessions' = [sessions EXCEPT ![s] = NoSession]
    /\ msglog' = [msglog EXCEPT ![s] = 0]
    /\ UNCHANGED <<task, ingestVars, chatVars, unitVars, lateVars>>

(***************************************************************************)
(* Part II.b  promoter: summarizer                                         *)
(***************************************************************************)

IdleTask == [pc |-> "idle", sid |-> "none", ws |-> "none", turns |-> 0,
             nested |-> FALSE, answer |-> "none"]

SummarizeDue(T) == T >= promote_after_turns /\ T % promote_after_turns = 0
ArchiveDue(T) == T >= archival_after_turns /\ T % archival_after_turns = 0

\* where maybe_promote goes on once _summarize_and_store has returned
AfterSummarize(tk) ==
    IF tk.nested THEN [tk EXCEPT !.pc = "arch_reread", !.answer = "none"]
    ELSE IF ArchiveDue(tk.turns)
    THEN [tk EXCEPT !.pc = "arch_info", !.answer = "none"]
    ELSE IdleTask

\* maybe_promote(session_id, workspace, turn_count) is started
StartPromote(s, ws, T) ==
    IF SummarizeDue(T)
    THEN [IdleTask EXCEPT !.pc = "sum_messages", !.sid = s, !.ws = ws,
                          !.turns = T]
    ELSE IF ArchiveDue(T)
    THEN [IdleTask EXCEPT !.pc = "arch_info", !.sid = s, !.ws = ws,
                          !.turns = T]
    ELSE IdleTask

maybe_promote(t, s, ws, T) ==
    /\ task[t].pc = "idle"
    /\ task' = [task EXCEPT ![t] = StartPromote(s, ws, T)]
    /\ UNCHANGED <<sessions, msglog, ingestVars, chatVars, unitVars, lateVars>>

\* _summarize_and_store, lines 35-37: get_session_messages, return when empty
SumMessages(t) ==
    /\ task[t].pc = "sum_messages"
    /\ task' = [task EXCEPT ![t] = IF msglog[task[t].sid] = 0
                                   THEN AfterSummarize(task[t])
                                   ELSE [@ EXCEPT !.pc = "sum_call"]]
    /\ UNCHANGED <<sessions, msglog, ingestVars, chatVars, unitVars, lateVars>>

\* _summarize_and_store, line 47: if not summary
EmptySummaryIgnored(summary) == FALSE
EmptySummary(summary) == summary = ""

\* _summarize_and_store, lines 46-48: _call_summarizer answers with a text or
\* with an empty content
SumCall(t, answer) ==
    /\ task[t].pc = "sum_call"
    /\ task' = [task EXCEPT ![t] = IF EmptySummary(answer)
                                   THEN AfterSummarize(task[t])
                                   ELSE [@ EXCEPT !.pc = "sum_embed",
                                                  !.answer = answer]]
    /\ UNCHANGED <<sessions, msglog, ingestVars, chatVars, unitVars, lateVars>>

\* _summarize_and_store, lines 50-51: embed_text returns the vector
SumEmbed(t) ==
    /\ task[t].pc = "sum_embed"
    /\ task' = [task EXCEPT ![t].pc = "sum_update"]
    /\ UNCHANGED <<sessions, msglog, ingestVars, chatVars, unitVars, lateVars>>

\* _summarize_and_store, line 53
SumUpdate(t) ==
    /\ task[t].pc = "sum_update"
    /\ sessions' = update_session_summary(task[t].sid, task[t].answer, "vector")
    /\ task' = [task EXCEPT ![t] = AfterSummarize(task[t])]
    /\ UNCHANGED <<msglog, ingestVars, chatVars, unitVars, lateVars>>

\* _promote_to_archival, lines 60-70: get_session_info, then either return,
\* go on to the ingest, or call _summarize_and_store first
ArchInfo(t) ==
    /\ task[t].pc = "arch_info"
    /\ LET row == sessions[task[t].sid]
       IN  task' = [task EXCEPT ![t] =
                      IF ~row.present THEN IdleTask
                      ELSE IF row.summary # "null" THEN [@ EXCEPT !.pc = "arch_ingest"]
                      ELSE [@ EXCEPT !.pc = "sum_messages", !.nested = TRUE]]
    /\ UNCHANGED <<sessions, msglog, ingestVars, chatVars, unitVars, lateVars>>

\* _promote_to_archival, lines 67-70: second get_session_info
ArchReread(t) ==
    /\ task[t].pc = "arch_reread"
    /\ LET row == sessions[task[t].sid]
       IN  task' = [task EXCEPT ![t] =
                      IF row.present /\ row.summary # "null"
                      THEN [@ EXCEPT !.pc = "arch_ingest"]
                      ELSE IdleTask]
    /\ UNCHANGED <<sessions, msglog, ingestVars, chatVars, unitVars, lateVars>>

\* _promote_to_archival, lines 77-78: archival_memory.ingest_text
ArchIngest(t) ==
    /\ task[t].pc = "arch_ingest"
    /\ task' = [task EXCEPT ![t] = IdleTask]
    /\ UNCHANGED <<sessions, msglog, ingestVars, chatVars, unitVars, lateVars>>

\* maybe_promote, lines 28-29: the database, the summarizer, the embedder or
\* the KG store raises at the awaited call the task is at; the exception is
\* logged and the task ends
PromoteFails(t) ==
    /\ task[t].pc # "idle"
    /\ task' = [task EXCEPT ![t] = IdleTask]
    /\ UNCHANGED <<sessions, msglog, ingestVars, chatVars, unitVars, lateVars>>

Promoter(t) ==
    \/ \E s \in Sessions, ws \in Workspaces, T \in TurnCounts :
            maybe_promote(t, s, ws, T)
    \/ SumMessages(t)
    \/ \E answer \in {"", "text"} : SumCall(t, answer)
    \/ SumEmbed(t)
    \/ SumUpdate(t)
    \/ ArchInfo(t)
    \/ ArchReread(t)
    \/ ArchIngest(t)
    \/ PromoteFails(t)

SessionStore(s) ==
    \/ \E ws \in Workspaces : ensure_session(s, ws)
    \/ store_message(s)
    \/ delete_session(s)

(***************************************************************************)
(* Part III.a  memory composer: _build_augmented_messages                  *)
(***************************************************************************)

\* bound on the length of request.messages
MaxLen == 3

Roles == {"system", "user", "assistant", "tool"}

\* message contents: empty (or None), or a text
Texts == {"", "a"}

ChatMessage == [role : Roles, content : Texts]

RequestMessages == UNION {[1..n -> ChatMessage] : n \in 0..MaxLen}

\* asyncio.gather(..., return_exceptions=True) hands back the result of a
\* fetch, Ok(v), or the exception it raised, Failure
Failure == Raise("exception")

\* results of working_memory.get_turns: the list session:<id>, whose entries
\* are the user and assistant turns appended by chat_completions
PriorTurns == {<<>>,
               <<[role |-> "user", content |-> "a"]>>,
               <<[role |-> "assistant", content |-> "b"],
                 [role |-> "user", content |-> "a"]>>}

\* results of _fetch_recall_context and of _fetch_archival_context
RecallContexts == {"", "[Past conversation]"}
ArchivalContexts == {"", "[Knowledge graph]"}

None == [role |-> "none", content |-> ""]

Last(S) == CHOOSE i \in S : \A k \in S : k <= i

\* lines 145-151: the last system message, and the other messages in order
SystemMsg(messages) ==
    LET I == {i \in DOMAIN messages : messages[i].role = "system"}
    IN  IF I = {} THEN None ELSE messages[Last(I)]

IsNonSystem(m) == m.role # "system"
NonSystem(messages) == SelectSeq(messages, IsNonSystem)

\* lines 153-157: content of the last user message that has content
UserQuery(messages) ==
    LET ns == NonSystem(messages)
        I == {i \in DOMAIN ns : ns[i].role = "user" /\ ns[i].content # ""}
    IN  IF I = {} THEN "" ELSE ns[Last(I)].content

\* lines 171-179: a fetch that raised counts as an empty result
OrEmptyList(r) == IF r.ok THEN r.val ELSE <<>>
OrEmptyText(r) == IF r.ok THEN r.val ELSE ""

\* lines 182-190 and 197
MemoryBlock(archival, recall) ==
    IF archival # "" /\ recall # ""
    THEN "<archival_memory>" \o archival \o "<recall_memory>" \o recall
    ELSE IF archival # "" THEN "<archival_memory>" \o archival
    ELSE IF recall # "" THEN "<recall_memory>" \o recall
    ELSE ""

\* lines 196-209: the head of the augmented list
SystemHead(system_msg, block) ==
    IF block # ""
    THEN IF system_msg # None
         THEN <<[role |-> "system",
                 content |-> system_msg.content \o "--- Relevant Memory ---" \o block]>>
         ELSE <<[role |-> "system", content |-> "--- Relevant Memory ---" \o block]>>
    ELSE IF system_msg # None THEN <<system_msg>>
    ELSE <<>>

\* lines 213-217: prior_turns[:-1]
History(prior_turns) ==
    IF prior_turns = <<>> THEN <<>>
    ELSE SubSeq(prior_turns, 1, Len(prior_turns) - 1)

build_augmented_messages(messages, prior, recall, archival) ==
    IF UserQuery(messages) = ""
    THEN messages
    ELSE SystemHead(SystemMsg(messages),
                    MemoryBlock(OrEmptyText(archival), OrEmptyText(recall)))
         \o History(OrEmptyList(prior))
         \o NonSystem(messages)

IdleComp == [pc |-> "idle", messages |-> <<>>, prior |-> Ok(<<>>),
             recall |-> Ok(""), archival |-> Ok(""), out |-> <<>>]

ComposerInputs ==
    {[pc |-> "called", messages |-> ms, prior |-> p, recall |-> r,
      archival |-> a, out |-> <<>>] :
        ms \in RequestMessages,
        p \in {Ok(v) : v \in PriorTurns} \cup {Failure},
        r \in {Ok(v) : v \in RecallContexts} \cup {Failure},
        a \in {Ok(v) : v \in ArchivalContexts} \cup {Failure}}

\* one call of _build_augmented_messages returns
Compose ==
    /\ comp.pc = "called"
    /\ comp' = [comp EXCEPT !.pc = "returned",
                   !.out = build_augmented_messages(comp.messages, comp.prior,
                                                    comp.recall, comp.archival)]
    /\ UNCHANGED <<chat, turns, strm, ingestVars, sessionVars, unitVars, lateVars>>

(***************************************************************************)
(* Part III.b  streaming proxy: ollama_proxy.chat_completion_stream        *)
(***************************************************************************)

\* bound on the number of lines the backend sends on one stream
MaxLines == 3

\* a backend line: blank, or a JSON object with message.content and done
BackendLine == [blank : BOOLEAN, content : Texts, done : BOOLEAN]

\* streams the backend can send: done is set on no line or on the last one
BackendStreams ==
    {ls \in UNION {[1..n -> BackendLine] : n \in 0..MaxLines} :
        \A i \in DOMAIN ls : (ls[i].done /\ ~ls[i].blank) => i = Len(ls)}

\* the SSE frames: a ChatCompletionChunk, or the literal "data: [DONE]"
Chunk(id, created, role, content, finish_reason) ==
    [kind |-> "chunk", id |-> id, created |-> created, role |-> role,
     content |-> content, finish_reason |-> finish_reason]
DoneFrame == [kind |-> "[DONE]", id |-> "none", created |-> 0, role |-> "null",
              content |-> "null", finish_reason |-> "null"]

\* lines 110-123: the frames yielded for one non-blank line
FramesOfLine(id, created, line) ==
    (IF line.content # ""
     THEN <<Chunk(id, created, "null", line.content, "null")>> ELSE <<>>)
    \o (IF line.done
        THEN <<Chunk(id, created, "null", "null", "stop"), DoneFrame>> ELSE <<>>)

IdleStream == [pc |-> "idle", lines |-> <<>>, pos |-> 0, id |-> "none",
               created |-> 0, frames |-> <<>>]

StreamInputs ==
    {[pc |-> "called", lines |-> ls, pos |-> 0, id |-> "chatcmpl-1",
      created |-> c, frames |-> <<>>] : ls \in BackendStreams, c \in {1, 2}}

\* lines 91-99: chunk_id and created are fixed, the first chunk is yielded
StreamFirst ==
    /\ strm.pc = "called"
    /\ strm' = [strm EXCEPT !.pc = "post",
                   !.frames = <<Chunk(strm.id, strm.created, "assistant",
                                      "null", "null")>>]
    /\ UNCHANGED <<chat, turns, comp, ingestVars, sessionVars, unitVars, lateVars>>

\* line 101-102: the POST is answered; an error status raises out of the
\* generator
StreamPost(ok) ==
    /\ strm.pc = "post"
    /\ strm' = [strm EXCEPT !.pc = IF ok THEN "lines" ELSE "upstream_error"]
    /\ UNCHANGED <<chat, turns, comp, ingestVars, sessionVars, unitVars, lateVars>>

\* lines 103-124: the next line of the backend is read
StreamLine ==
    /\ strm.pc = "lines"
    /\ strm.pos < Len(strm.lines)
    /\ LET line == strm.lines[strm.pos + 1]
       IN  strm' = IF line.blank
                   THEN [strm EXCEPT !.pos = @ + 1]
                   ELSE [strm EXCEPT !.pos = @ + 1,
                            !.frames = @ \o FramesOfLine(strm.id, strm.created, line),
                            !.pc = IF line.done THEN "closed" ELSE "lines"]
    /\ UNCHANGED <<chat, turns, comp, ingestVars, sessionVars, unitVars, lateVars>>

\* line 103: aiter_lines is exhausted, the generator returns
StreamEnd ==
    /\ strm.pc = "lines"
    /\ strm.pos = Len(strm.lines)
    /\ strm' = [strm EXCEPT !.pc = "closed"]
    /\ UNCHANGED <<chat, turns, comp, ingestVars, sessionVars, unitVars, lateVars>>

chat_completion_stream ==
    \/ StreamFirst
    \/ \E ok \in BOOLEAN : StreamPost(ok)
    \/ StreamLine
    \/ StreamEnd

(***************************************************************************)
(* Part III.c  chat path: POST /v1/chat/completions                        *)
(***************************************************************************)

\* chat requests in progress; the sessions of earlier requests are part of
\* the initial state
Requests == {"r1"}

\* the promoter run started by request r
TaskOf(r) == "t1"

\* the last user message of a request: none, one without content, one with
UserMessages == {"none", "empty", "text"}

\* lengths of the message log of a session that exists before the requests
\* of the model arrive: new, two short of P, two short of A
PriorCounts == {0, promote_after_turns - 2, archival_after_turns - 2}

IdleChat == [pc |-> "idle", sid |-> "none", ws |-> "none", stream |-> FALSE,
             user |-> "none", recall |-> {}, T |-> 0, header |-> "none",
             resp |-> "none", at |-> "none"]

\* append_turn: RPUSH session:<s>, then EXPIRE
append_turn(s) == [turns EXCEPT ![s] = @ + 1]

\* get_turn_count: LLEN session:<s>
get_turn_count(s) == turns[s]

\* INSERT INTO orchestrator_messages
store_message_row(s) == [msglog EXCEPT ![s] = @ + 1]

\* SELECT ... WHERE workspace = $2 AND summary IS NOT NULL AND summary_vector
\* IS NOT NULL AND id != $3: the rows found, each with the workspace it has
search_similar_sessions_any(ws, exclude) ==
    {[sid |-> s, workspace |-> sessions[s].workspace] :
        s \in {x \in Sessions : /\ sessions[x].present
                                /\ sessions[x].summary # "null"
                                /\ sessions[x].summary_vector # "null"
                                /\ x # exclude}}
search_similar_sessions(ws, exclude) ==
    {[sid |-> s, workspace |-> sessions[s].workspace] :
        s \in {x \in Sessions : /\ sessions[x].present
                                /\ sessions[x].workspace = ws
                                /\ sessions[x].summary # "null"
                                /\ sessions[x].summary_vector # "null"
                                /\ x # exclude}}

\* lines 42-49: the request arrives; s is the resolved session id
\* (request.session_id, or the uuid drawn for this request), ws the derived
\* workspace
ChatStart(r, s, ws, stream, user) ==
    /\ chat[r].pc = "idle"
    /\ chat' = [chat EXCEPT ![r] = [IdleChat EXCEPT !.pc = "ensure", !.sid = s,
                                       !.ws = ws, !.stream = stream, !.user = user]]
    /\ UNCHANGED <<turns, comp, strm, ingestVars, sessionVars, unitVars, lateVars>>

\* line 50
ChatEnsure(r) ==
    /\ chat[r].pc = "ensure"
    /\ sessions' = ensure_session_row(chat[r].sid, chat[r].ws)
    /\ chat' = [chat EXCEPT ![r].pc = IF chat[r].user = "none" THEN "build"
                                      ELSE "append_user"]
    /\ UNCHANGED <<msglog, task, turns, comp, strm, ingestVars, unitVars, lateVars>>

\* lines 58-60, 97-99 and 125-127: working_memory.append_turn
ChatAppend(r) ==
    /\ chat[r].pc \in {"append_user", "append_asst"}
    /\ turns' = append_turn(chat[r].sid)
    /\ chat' = [chat EXCEPT ![r].pc = IF chat[r].pc = "append_user"
                                      THEN "store_user" ELSE "store_asst"]
    /\ UNCHANGED <<comp, strm, ingestVars, sessionVars, unitVars, lateVars>>

\* lines 61, 100 and 128: recall_memory.store_message
ChatStore(r) ==
    /\ chat[r].pc \in {"store_user", "store_asst"}
    /\ msglog' = store_message_row(chat[r].sid)
    /\ chat' = [chat EXCEPT ![r].pc = IF chat[r].pc = "store_user"
                                      THEN "build" ELSE "count"]
    /\ UNCHANGED <<sessions, task, turns, comp, strm, ingestVars, unitVars, lateVars>>

\* line 64, _build_augmented_messages with _fetch_recall_context: without a
\* user query nothing is fetched; otherwise the three fetches run, each may
\* raise, and the recall context is made of the rows found whose similarity
\* is at least 0.3
ChatBuild(r, recallOk, kept) ==
    /\ chat[r].pc = "build"
    /\ kept \subseteq search_similar_sessions(chat[r].ws, chat[r].sid)
    /\ chat' = [chat EXCEPT ![r].pc = "backend",
                   ![r].recall = IF chat[r].user = "text" /\ recallOk
                                 THEN kept ELSE {}]
    /\ UNCHANGED <<turns, comp, strm, ingestVars, sessionVars, unitVars, lateVars>>

\* lines 67-121: the backend call. Streaming: the StreamingResponse is
\* returned with its headers and the generator starts. Unary: the answer of
\* the backend arrives, or the call raises
ChatBackend(r, ok) ==
    /\ chat[r].pc = "backend"
    /\ chat' = [chat EXCEPT ![r] =
                  IF chat[r].stream
                  THEN [@ EXCEPT !.pc = "streaming", !.resp = "started",
                                 !.header = chat[r].sid, !.recall = {}]
                  ELSE IF ok
                  THEN [@ EXCEPT !.pc = "append_asst", !.recall = {}]
                  ELSE [@ EXCEPT !.pc = "error", !.resp = "error",
                                 !.at = "backend", !.recall = {}]]
    /\ UNCHANGED <<turns, comp, strm, ingestVars, sessionVars, unitVars, lateVars>>

\* lines 71-95: the loop over chat_completion_stream ends: with an upstream
\* error, with collected content, or without any
ChatStreamEnd(r, ok, content) ==
    /\ chat[r].pc = "streaming"
    /\ chat' = [chat EXCEPT ![r] =
                  IF ~ok THEN [@ EXCEPT !.pc = "error", !.resp = "aborted",
                                        !.at = "streaming"]
                  ELSE IF content THEN [@ EXCEPT !.pc = "append_asst"]
                  ELSE [@ EXCEPT !.pc = "done", !.resp = "complete"]]
    /\ UNCHANGED <<turns, comp, strm, ingestVars, sessionVars, unitVars, lateVars>>

\* lines 101 and 130: turn_count = await working_memory.get_turn_count
ChatCount(r) ==
    /\ chat[r].pc = "count"
    /\ chat' = [chat EXCEPT ![r].T = get_turn_count(chat[r].sid),
                   ![r].pc = IF chat[r].stream THEN "promote" ELSE "return"]
    /\ UNCHANGED <<turns, comp, strm, ingestVars, sessionVars, unitVars, lateVars>>

\* lines 131-135: add_task, return response: the unary response is sent
ChatReturn(r) ==
    /\ chat[r].pc = "return"
    /\ chat' = [chat EXCEPT ![r].pc = "background", ![r].resp = "complete"]
    /\ UNCHANGED <<turns, comp, strm, ingestVars, sessionVars, unitVars, lateVars>>

\* line 102 (inside the generator) and lines 131-133 (background task run
\* once the response was sent): maybe_promote(session_id, ws, turn_count)
ChatPromote(r) ==
    /\ chat[r].pc \in {"promote", "background"}
    /\ task[TaskOf(r)].pc = "idle"
    /\ task' = [task EXCEPT ![TaskOf(r)] =
                  StartPromote(chat[r].sid, chat[r].ws, chat[r].T)]
    /\ chat' = [chat EXCEPT ![r].pc = IF chat[r].stream THEN "promoting"
                                      ELSE "done"]
    /\ UNCHANGED <<sessions, msglog, turns, comp, strm, ingestVars, unitVars, lateVars>>

\* line 102 returns inside stream_and_capture: the generator is exhausted
\* and the response body ends
ChatStreamClose(r) ==
    /\ chat[r].pc = "promoting"
    /\ task[TaskOf(r)].pc = "idle"
    /\ chat' = [chat EXCEPT ![r].pc = "done", ![r].resp = "complete"]
    /\ UNCHANGED <<turns, comp, strm, ingestVars, sessionVars, unitVars, lateVars>>

\* the short-term buffer or the session store raises at the awaited call the
\* request is at: nothing in chat_completions catches it
ChatFails(r) ==
    /\ chat[r].pc \in {"ensure", "append_user", "store_user", "append_asst",
                       "store_asst", "count"}
    /\ chat' = [chat EXCEPT ![r].pc = "error", ![r].at = chat[r].pc,
                   ![r].resp = IF chat[r].resp = "started" THEN "aborted"
                               ELSE "error"]
    /\ UNCHANGED <<turns, comp, strm, ingestVars, sessionVars, unitVars, lateVars>>

\* the key session:<s> reaches its TTL (or is evicted)
Expire(s) ==
    /\ turns[s] > 0
    /\ turns' = [turns EXCEPT ![s] = 0]
    /\ UNCHANGED <<chat, comp, strm, ingestVars, sessionVars, unitVars, lateVars>>

chat_completions(r) ==
    \/ \E s \in Sessions, ws \in Workspaces, stream \in BOOLEAN,
          user \in UserMessages : ChatStart(r, s, ws, stream, user)
    \/ ChatEnsure(r)
    \/ ChatAppend(r)
    \/ ChatStore(r)
    \/ \E recallOk \in BOOLEAN, kept \in SUBSET [sid : Sessions, workspace : Workspaces] :
          ChatBuild(r, recallOk, kept)
    \/ \E ok \in BOOLEAN : ChatBackend(r, ok)
    \/ \E ok \in BOOLEAN, content \in BOOLEAN : ChatStreamEnd(r, ok, content)
    \/ ChatCount(r)
    \/ ChatReturn(r)
    \/ ChatPromote(r)
    \/ ChatStreamClose(r)
    \/ ChatFails(r)

\* the steps of a promoter run once it was started
PromoterRun(t) ==
    \/ SumMessages(t)
    \/ \E answer \in {"", "text"} : SumCall(t, answer)
    \/ SumEmbed(t)
    \/ SumUpdate(t)
    \/ ArchInfo(t)
    \/ ArchReread(t)
    \/ ArchIngest(t)
    \/ PromoteFails(t)

InitChatIdle ==
    /\ chat = [r \in Requests |-> IdleChat]
    /\ turns = [s \in Sessions |-> 0]
    /\ comp = IdleComp
    /\ strm = IdleStream

(***************************************************************************)
(* Part III.e  concurrent chat requests on one session                     *)
(***************************************************************************)

\* chat requests in flight on the same session id, each with one user
\* message that has content
Clients == {"c1", "c2"}

Turn(c, role) == [by |-> c, role |-> role]
NoTurn == [by |-> "none", role |-> "none"]

IdleConv == [pc |-> [c \in Clients |-> "idle"], short |-> <<>>, log |-> <<>>,
             history |-> [c \in Clients |-> <<>>],
             dropped |-> [c \in Clients |-> NoTurn]]

\* the request of client c arrives (steps 1-3 are done)
ConvStart(c) ==
    /\ conv.pc[c] = "idle"
    /\ conv' = [conv EXCEPT !.pc[c] = "append_user"]
    /\ UNCHANGED <<chatVars, san, cb, arch, ext, ingestVars, sessionVars, lateVars>>

\* lines 58-60, 97-99, 125-127: RPUSH on the list of the session
ConvAppend(c) ==
    /\ conv.pc[c] \in {"append_user", "append_asst"}
    /\ conv' = [conv EXCEPT
                  !.short = Append(@, Turn(c, IF conv.pc[c] = "append_user"
                                              THEN "user" ELSE "assistant")),
                  !.pc[c] = IF conv.pc[c] = "append_user" THEN "store_user"
                            ELSE "store_asst"]
    /\ UNCHANGED <<chatVars, san, cb, arch, ext, ingestVars, sessionVars, lateVars>>

\* lines 61, 100, 128: INSERT INTO orchestrator_messages
ConvStore(c) ==
    /\ conv.pc[c] \in {"store_user", "store_asst"}
    /\ conv' = [conv EXCEPT
                  !.log = Append(@, Turn(c, IF conv.pc[c] = "store_user"
                                            THEN "user" ELSE "assistant")),
                  !.pc[c] = IF conv.pc[c] = "store_user" THEN "build"
                            ELSE "done"]
    /\ UNCHANGED <<chatVars, san, cb, arch, ext, ingestVars, sessionVars, lateVars>>

\* lines 163-173 and 213-217: get_turns reads the list (or raises), the last
\* entry is dropped and the others go into the augmented list
ConvBuild(c, ok) ==
    /\ conv.pc[c] = "build"
    /\ LET prior_turns == IF ok THEN conv.short ELSE <<>>
       IN  conv' = [conv EXCEPT
                      !.history[c] = History(prior_turns),
                      !.dropped[c] = IF prior_turns = <<>> THEN NoTurn
                                     ELSE prior_turns[Len(prior_turns)],
                      !.pc[c] = "backend"]
    /\ UNCHANGED <<chatVars, san, cb, arch, ext, ingestVars, sessionVars, lateVars>>

\* lines 67-123: the backend answers with content
ConvBackend(c) ==
    /\ conv.pc[c] = "backend"
    /\ conv' = [conv EXCEPT !.pc[c] = "append_asst"]
    /\ UNCHANGED <<chatVars, san, cb, arch, ext, ingestVars, sessionVars, lateVars>>

Conversation(c) ==
    \/ ConvStart(c)
    \/ ConvAppend(c)
    \/ ConvStore(c)
    \/ \E ok \in BOOLEAN : ConvBuild(c, ok)
    \/ ConvBackend(c)

(***************************************************************************)
(* Part IV.a  workspace names: _sanitize                                   *)
(***************************************************************************)

\* cleaned[:64]
NameCap == 64

\* bound on the length of the part of a name before and after its filling
MaxAffix == 2

\* a string is a sequence of characters; "a" stands for the letters and
\* digits, " " for white space, "/" for every other character
Alphabet == {"a", "_", "-", " ", "/"}

\* the characters of [a-zA-Z0-9_-]
WordChars == {"a", "d", "e", "f", "l", "t", "u", "_", "-"}

Whitespace == {" "}

DefaultName == <<"d", "e", "f", "a", "u", "l", "t">>

Affixes == UNION {[1..n -> Alphabet] : n \in 0..MaxAffix}

\* k letters
Filling(k) == [i \in 1..k |-> "a"]

\* names shorter than, as long as and longer than the cap, with every
\* affix at both ends
Names == {p \o Filling(k) \o q :
             p \in Affixes, q \in Affixes,
             k \in {0, NameCap - 1, NameCap, NameCap + 1}}

\* str.strip()
RECURSIVE StripLeft(_)
StripLeft(str) ==
    IF str # <<>> /\ Head(str) \in Whitespace THEN StripLeft(Tail(str)) ELSE str

RECURSIVE StripRight(_)
StripRight(str) ==
    IF str # <<>> /\ str[Len(str)] \in Whitespace
    THEN StripRight(SubSeq(str, 1, Len(str) - 1)) ELSE str

Strip(str) == StripRight(StripLeft(str))

\* re.sub(r'[^a-zA-Z0-9_-]', '-', ...)
Substitute(str) ==
    [i \in DOMAIN str |-> IF str[i] \in WordChars THEN str[i] ELSE "-"]

\* str[:n]
Prefix(str, n) == SubSeq(str, 1, IF Len(str) < n THEN Len(str) ELSE n)

sanitize_uncut(name) ==
    LET cleaned == Substitute(Strip(name))
    IN  IF cleaned = <<>> THEN DefaultName ELSE cleaned
sanitize(name) ==
    LET cleaned == Prefix(Substitute(Strip(name)), NameCap)
    IN  IF cleaned = <<>> THEN DefaultName ELSE cleaned

IdleSan == [pc |-> "idle", name |-> <<>>, out |-> <<>>]

\* one call of _sanitize returns
Sanitize ==
    /\ san.pc = "called"
    /\ san' = [san EXCEPT !.pc = "returned", !.out = sanitize(san.name)]
    /\ UNCHANGED <<chatVars, conv, cb, arch, ext, ingestVars, sessionVars, lateVars>>

(***************************************************************************)
(* Part IV.b  codebase jobs: process_codebase                              *)
(***************************************************************************)

\* settings.batch_size (B)
batch_size == 20

\* bound on the number of files _extract_archive returns in this part
MaxExtracted == 41

\* the extracted files are numbered 1..n in extraction order

\* extracted[batch_start:batch_start + batch_size]
BatchAtFullOnly(n, batch_start) ==
    IF batch_start + batch_size <= n
    THEN [i \in 1..batch_size |-> batch_start + i]
    ELSE <<>>
BatchAt(n, batch_start) ==
    [i \in 1..(IF batch_start + batch_size <= n THEN batch_size
               ELSE n - batch_start) |-> batch_start + i]

\* line 67: if not extracted
NoFilesIgnored(n) == FALSE
NoFiles(n) == n = 0

IdleCodebase == [pc |-> "idle", blob |-> FALSE, n |-> 0, batch_start |-> 0,
                 batches |-> <<>>, errors |-> <<>>, total_docs |-> 0,
                 result |-> [files_found |-> 0, documents_sent |-> 0,
                             errors |-> <<>>]]

\* calls of process_codebase: whether the blob row exists, and how many files
\* the unpacker will return for it
CodebaseInputs ==
    {[IdleCodebase EXCEPT !.pc = "called", !.blob = b, !.n = n] :
        b \in BOOLEAN, n \in 0..MaxExtracted}

\* lines 59-61: get_document_blob
CbFetch ==
    /\ cb.pc = "called"
    /\ cb' = [cb EXCEPT !.pc = IF cb.blob THEN "extract" ELSE "raised"]
    /\ UNCHANGED <<chatVars, conv, san, arch, ext, ingestVars, sessionVars, lateVars>>

\* lines 63-68: _extract_archive, ValueError when it returned no file
CbExtract ==
    /\ cb.pc = "extract"
    /\ cb' = [cb EXCEPT !.pc = IF NoFiles(cb.n) THEN "raised" ELSE "loop"]
    /\ UNCHANGED <<chatVars, conv, san, arch, ext, ingestVars, sessionVars, lateVars>>

\* lines 73-91: one turn of the loop; the POST of the batch succeeds with a
\* result {documents_sent: docs, errors: file_errors entries}, or raises
CbBatch(ok, docs, file_errors) ==
    /\ cb.pc = "loop"
    /\ cb.batch_start < cb.n
    /\ LET batch == BatchAt(cb.n, cb.batch_start)
       IN  cb' = [cb EXCEPT
                    !.batches = Append(@, [files |-> batch, ok |-> ok,
                                           docs |-> IF ok THEN docs ELSE 0]),
                    !.total_docs = IF ok THEN @ + docs ELSE @,
                    !.errors = IF ok
                               THEN @ \o [i \in 1..file_errors |->
                                             [kind |-> "file", batch |-> 0]]
                               ELSE Append(@, [kind |-> "batch", batch |->
                                               cb.batch_start \div batch_size]),
                    !.batch_start = @ + batch_size]
    /\ UNCHANGED <<chatVars, conv, san, arch, ext, ingestVars, sessionVars, lateVars>>

\* lines 93-97
CbReturn ==
    /\ cb.pc = "loop"
    /\ cb.batch_start >= cb.n
    /\ cb' = [cb EXCEPT !.pc = "returned",
                 !.result = [files_found |-> cb.n,
                             documents_sent |-> cb.total_docs,
                             errors |-> cb.errors]]
    /\ UNCHANGED <<chatVars, conv, san, arch, ext, ingestVars, sessionVars, lateVars>>

process_codebase_run ==
    \/ CbFetch
    \/ CbExtract
    \/ \E ok \in BOOLEAN, docs \in {0, batch_size}, file_errors \in {0, 1} :
          CbBatch(ok, docs, file_errors)
    \/ CbReturn

(***************************************************************************)
(* Part IV.c  the archive unpacker: _extract_archive and _should_skip      *)
(***************************************************************************)

\* A path is the sequence of its "/"-separated segments as the archive
\* stores them; a segment is the sequence of its pieces, a piece being "."
\* or a run of characters without ".": "a.py" is <<"a", ".", "py">>.

_SKIP_DIRS == {
    <<"__pycache__">>, <<".", "git">>, <<".", "svn">>, <<".", "hg">>,
    <<"node_modules">>, <<".", "tox">>, <<".", "venv">>, <<"venv">>,
    <<".", "mypy_cache">>, <<".", "pytest_cache">>, <<"dist">>,
    <<"build">>, <<".", "next">>, <<"target">>}

_SKIP_EXTENSIONS == {
    <<".", "pyc">>, <<".", "pyo">>, <<".", "so">>, <<".", "dylib">>,
    <<".", "dll">>, <<".", "o">>, <<".", "a">>, <<".", "class">>,
    <<".", "jar">>, <<".", "war">>, <<".", "exe">>, <<".", "bin">>,
    <<".", "png">>, <<".", "jpg">>, <<".", "jpeg">>, <<".", "gif">>,
    <<".", "ico">>, <<".", "svg">>, <<".", "bmp">>, <<".", "woff">>,
    <<".", "woff2">>, <<".", "ttf">>, <<".", "eot">>, <<".", "zip">>,
    <<".", "tar">>, <<".", "gz">>, <<".", "bz2">>, <<".", "xz">>,
    <<".", "7z">>, <<".", "lock">>, <<".", "map">>}

_MAX_FILE_SIZE == 1048576
_MAX_FILES == 2000

Dot == <<".">>

\* PurePosixPath(path).parts: the "." segments are collapsed away
parts(path) == SelectSeq(path, LAMBDA p : p # Dot)

\* str.startswith(".")
startswithDot(p) == Len(p) > 0 /\ p[1] = "."

\* PurePosixPath(path).suffix: from the last "." of the final segment, when
\* that "." is neither its first nor its last piece
suffix(path) ==
    LET ps   == parts(path)
        name == IF ps = <<>> THEN <<>> ELSE ps[Len(ps)]
        dots == {i \in 1..Len(name) : name[i] = "."}
        Max(S) == CHOOSE x \in S : \A y \in S : y <= x
    IN  IF dots = {} THEN <<>>
        ELSE IF Max(dots) = 1 \/ Max(dots) = Len(name) THEN <<>>
        ELSE SubSeq(name, Max(dots), Len(name))

\* str.lower() on the pieces used below
lowerPiece(t) == IF t = "PNG" THEN "png" ELSE t
lower(p) == [i \in 1..Len(p) |-> lowerPiece(p[i])]

_should_skip(path, size) ==
    \/ \E i \in 1..Len(parts(path)) : startswithDot(parts(path)[i])
    \/ \E i \in 1..Len(parts(path)) : parts(path)[i] \in _SKIP_DIRS
    \/ lower(suffix(path)) \in _SKIP_EXTENSIONS
    \/ size > _MAX_FILE_SIZE
    \/ size = 0

\* members of an archive: a regular file, a directory or a symbolic link
MemberKinds == {"file", "dir", "symlink"}
DirSegments == {<<"src">>, Dot, <<".", "git">>, <<"build">>}
FileSegments == {<<"a", ".", "py">>, <<"a", ".", "PNG">>, <<".", "env">>}
MemberPaths == {<<f>> : f \in FileSegments}
                 \cup {<<d, f>> : d \in DirSegments, f \in FileSegments}
MemberSizes == {0, 1, _MAX_FILE_SIZE, _MAX_FILE_SIZE + 1}
Members == [kind : MemberKinds, path : MemberPaths, size : MemberSizes]
NoMember == [kind |-> "none", path |-> <<>>, size |-> 0]

\* TarInfo.isfile()
isfile(m) == m.kind = "file"
\* ZipInfo.is_dir(): the stored name ends with "/"
is_dir(m) == m.kind = "dir"

\* a member the unpacker is to return: a regular file that matches no skip
\* rule, the segments being those of the stored path
Eligible(m) ==
    /\ m.kind = "file"
    /\ \A i \in 1..Len(m.path) : ~startswithDot(m.path[i])
    /\ \A i \in 1..Len(m.path) : m.path[i] \notin _SKIP_DIRS
    /\ lower(suffix(m.path)) \notin _SKIP_EXTENSIONS
    /\ 0 < m.size /\ m.size <= _MAX_FILE_SIZE

\* n is len(files) and last is files[-1]; lost records that a member the
\* unpacker is to return was passed over while the scan was running
IdleArchive == [pc |-> "idle", fmt |-> "other", n |-> 0, last |-> NoMember,
                lost |-> FALSE]

ArchiveFormats == {"tar", "zip", "other"}
ArchiveInputs ==
    {[IdleArchive EXCEPT !.pc = "called", !.fmt = f] : f \in ArchiveFormats}

\* lines 103-105 and 118-120: the suffix of the file name selects the reader;
\* an unknown suffix returns the empty list, a reader that cannot open the
\* bytes raises TarError or BadZipFile
ArchOpen(ok) ==
    /\ arch.pc = "called"
    /\ arch' = [arch EXCEPT !.pc = IF arch.fmt = "other" \/ ~ok
                                   THEN "returned" ELSE "scan"]
    /\ UNCHANGED <<chatVars, conv, san, cb, ext, ingestVars, sessionVars, lateVars>>

\* lines 106-115 and 121-128: one member of the archive
ArchMember(m) ==
    /\ arch.pc = "scan"
    /\ LET regular == IF arch.fmt = "tar" THEN isfile(m) ELSE ~is_dir(m)
       IN  IF regular /\ ~_should_skip(m.path, m.size)
           THEN arch' = [arch EXCEPT !.n = @ + 1, !.last = m,
                            !.pc = IF arch.n + 1 >= _MAX_FILES
                                   THEN "returned" ELSE "scan"]
           ELSE arch' = [arch EXCEPT !.lost = @ \/ Eligible(m)]
    /\ UNCHANGED <<chatVars, conv, san, cb, ext, ingestVars, sessionVars, lateVars>>

\* the members are exhausted
ArchEnd ==
    /\ arch.pc = "scan"
    /\ arch' = [arch EXCEPT !.pc = "returned"]
    /\ UNCHANGED <<chatVars, conv, san, cb, ext, ingestVars, sessionVars, lateVars>>

\* lines 116-117 and 129-130: TarError or BadZipFile while reading
ArchError ==
    /\ arch.pc = "scan"
    /\ arch' = [arch EXCEPT !.pc = "returned", !.n = 0, !.last = NoMember]
    /\ UNCHANGED <<chatVars, conv, san, cb, ext, ingestVars, sessionVars, lateVars>>

_extract_archive ==
    \/ \E ok \in BOOLEAN : ArchOpen(ok)
    \/ \E m \in Members : ArchMember(m)
    \/ ArchEnd
    \/ ArchError

(***************************************************************************)
(* Part IV.d  the code extractor: parse_file and _extract                  *)
(***************************************************************************)

\* bound on the number of syntax-tree nodes _extract visits in one file
MaxNodes == 3

\* rows of the source text (tree-sitter points are 0-based)
Rows == 0..1
\* names _get_name finds on a node; NoName when it finds none
NodeNames == {"A", "B"}
NoName == ""
ModuleName == "m"
\* what _extract_inheritance appends for a class-like node
Inheritances == {{}, {"extends", "implements"}}

\* line 113: the parent handed to the walk of a class body
ClassBodyParentQualified(parent_name, name) == parent_name \o "." \o name
ClassBodyParent(parent_name, name) == name

Entity(name, kind, start_row, end_row) ==
    [name |-> name, kind |-> kind,
     line_start |-> start_row + 1, line_end |-> end_row + 1]
Relationship(source, kind) == [source |-> source, kind |-> kind]

\* entities and relationships are the lists of parse_file, kept as sets;
\* stack holds one frame per active call of _extract: the parent name it was
\* given and the rows of the node whose children it walks
IdleExtract == [pc |-> "idle", supported |-> TRUE, newlines |-> 0,
                stack |-> <<>>, nodes |-> 0,
                entities |-> {}, relationships |-> {}]

ExtractInputs ==
    {[IdleExtract EXCEPT !.pc = "called", !.supported = sp, !.newlines = nl] :
        sp \in BOOLEAN, nl \in Rows}

Top == ext.stack[Len(ext.stack)]
\* a child node lies within the rows of its parent node
Within(lo, hi) == Top.lo <= lo /\ lo <= hi /\ hi <= Top.hi

\* parse_file, lines 7-28: unsupported language, or the module entity and
\* the walk from the root node
ExtStart ==
    /\ ext.pc = "called"
    /\ IF ~ext.supported
       THEN ext' = [ext EXCEPT !.pc = "raised"]
       ELSE ext' = [ext EXCEPT
                      !.pc = "walk",
                      !.entities = {[name |-> ModuleName, kind |-> "module",
                                     line_start |-> 1,
                                     line_end |-> ext.newlines + 1]},
                      !.stack = <<[parent |-> ModuleName, lo |-> 0,
                                   hi |-> ext.newlines]>>]
    /\ UNCHANGED <<chatVars, conv, san, cb, arch, ingestVars, sessionVars, lateVars>>

\* lines 92-114: a class-like child
ExtClass(name, interface, inh, lo, hi) ==
    /\ ext.pc = "walk" /\ ext.nodes < MaxNodes /\ Within(lo, hi)
    /\ IF name = NoName
       THEN ext' = [ext EXCEPT !.nodes = @ + 1]
       ELSE ext' = [ext EXCEPT
                      !.nodes = @ + 1,
                      !.entities = @ \cup
                          {Entity(name, IF interface THEN "interface"
                                        ELSE "class", lo, hi)},
                      !.relationships = @ \cup
                          {Relationship(Top.parent, "contains")} \cup
                          {Relationship(name, k) : k \in inh},
                      !.stack = Append(@,
                          [parent |-> ClassBodyParent(Top.parent, name),
                           lo |-> lo, hi |-> hi])]
    /\ UNCHANGED <<chatVars, conv, san, cb, arch, ingestVars, sessionVars, lateVars>>

\* lines 116-139: a function-like child; its body is not walked
ExtFunc(name, lo, hi) ==
    /\ ext.pc = "walk" /\ ext.nodes < MaxNodes /\ Within(lo, hi)
    /\ LET parent_name == Top.parent
           is_method == /\ parent_name # ""
                        /\ \E e \in ext.entities :
                              /\ e.kind \in {"class", "interface"}
                              /\ e.name = parent_name
       IN  IF name = NoName
           THEN ext' = [ext EXCEPT !.nodes = @ + 1]
           ELSE ext' = [ext EXCEPT
                          !.nodes = @ + 1,
                          !.entities = @ \cup
                              {Entity(IF is_method
                                      THEN parent_name \o "." \o name
                                      ELSE name,
                                      IF is_method THEN "method"
                                      ELSE "function", lo, hi)},
                          !.relationships = @ \cup
                              {Relationship(parent_name, "contains")}]
    /\ UNCHANGED <<chatVars, conv, san, cb, arch, ingestVars, sessionVars, lateVars>>

\* lines 141-147: an import-like child, with or without a target
ExtImport(target) ==
    /\ ext.pc = "walk" /\ ext.nodes < MaxNodes
    /\ ext' = [ext EXCEPT
                 !.nodes = @ + 1,
                 !.relationships =
                     IF target THEN @ \cup {Relationship(Top.parent, "imports")}
                     ELSE @]
    /\ UNCHANGED <<chatVars, conv, san, cb, arch, ingestVars, sessionVars, lateVars>>

\* lines 149-153: any other child, walked when it has children
ExtOther(has_children, lo, hi) ==
    /\ ext.pc = "walk" /\ ext.nodes < MaxNodes /\ Within(lo, hi)
    /\ ext' = [ext EXCEPT
                 !.nodes = @ + 1,
                 !.stack = IF has_children
                           THEN Append(@, [parent |-> Top.parent,
                                           lo |-> lo, hi |-> hi])
                           ELSE @]
    /\ UNCHANGED <<chatVars, conv, san, cb, arch, ingestVars, sessionVars, lateVars>>

\* the loop of line 89 is exhausted: this call of _extract returns; the
\* return of the outermost call ends the walk (lines 30-37)
ExtReturn ==
    /\ ext.pc = "walk"
    /\ ext' = [ext EXCEPT
                 !.stack = SubSeq(@, 1, Len(@) - 1),
                 !.pc = IF Len(ext.stack) = 1 THEN "parsed" ELSE "walk"]
    /\ UNCHANGED <<chatVars, conv, san, cb, arch, ingestVars, sessionVars, lateVars>>

parse_file ==
    \/ ExtStart
    \/ \E name \in NodeNames \cup {NoName}, interface \in BOOLEAN,
          inh \in Inheritances, lo \in Rows, hi \in Rows :
          ExtClass(name, interface, inh, lo, hi)
    \/ \E name \in NodeNames \cup {NoName}, lo \in Rows, hi \in Rows :
          ExtFunc(name, lo, hi)
    \/ \E target \in BOOLEAN : ExtImport(target)
    \/ \E has_children \in BOOLEAN, lo \in Rows, hi \in Rows :
          ExtOther(has_children, lo, hi)
    \/ ExtReturn

(***************************************************************************)
(* Part V.a  the ingest worker process: run and main                       *)
(***************************************************************************)

\* bound on the number of messages one run of the worker fetches
MaxFetched == 3

\* how a call of handle_message ends: after msg.ack(), msg.nak() or
\* msg.term(), or with an exception that leaves it before any of them
\* (lines 45, 55, 66, 78, 86-92 sit outside a try or inside the handler of one)
HandleOutcomes == {"ack", "nak", "term", "raised"}
FetchResults == {"message", "timeout", "error"}

\* line 113: while not _shutdown.is_set()
LoopExits(shutdown) == shutdown

\* lines 125-127, in their order
CleanupOrder == <<"unsubscribe", "drain", "close_pool">>
AfterCleanup(step) ==
    IF step = "unsubscribe" THEN "drain"
    ELSE IF step = "drain" THEN "close_pool" ELSE "exited"

\* outcomes: how the handled messages ended, in order; in_progress: a call
\* of handle_message is running; after: fetches and calls of handle_message
\* that ended since the flag was set; abandoned: a call of handle_message
\* ended without ack, nak or term while the flag was set; cleanup: the
\* calls of lines 125-127 that returned
IdleRun == [pc |-> "idle", shutdown |-> FALSE, outcomes |-> <<>>,
            in_progress |-> FALSE, after |-> [fetch |-> 0, handle |-> 0],
            abandoned |-> FALSE, cleanup |-> <<>>]

\* main, lines 131-137: the handlers are installed, then run() starts
StartedRun == [IdleRun EXCEPT !.pc = "setup"]

\* line 134: SIGTERM or SIGINT runs _shutdown.set on the event loop
Signal ==
    /\ sd.pc \notin {"idle", "exited", "crashed"}
    /\ ~sd.shutdown
    /\ sd' = [sd EXCEPT !.shutdown = TRUE]
    /\ UNCHANGED <<ingestVars, sessionVars, chatVars, unitVars,
                   tc, cap, rt, pt, kg>>

\* lines 98-109: pool, connection, stream, subscription; an exception ends run
RunSetup(ok) ==
    /\ sd.pc = "setup"
    /\ sd' = [sd EXCEPT !.pc = IF ok THEN "test" ELSE "crashed"]
    /\ UNCHANGED <<ingestVars, sessionVars, chatVars, unitVars,
                   tc, cap, rt, pt, kg>>

\* line 113
RunTest ==
    /\ sd.pc = "test"
    /\ sd' = [sd EXCEPT !.pc = IF LoopExits(sd.shutdown) THEN "unsubscribe"
                               ELSE "fetch"]
    /\ UNCHANGED <<ingestVars, sessionVars, chatVars, unitVars,
                   tc, cap, rt, pt, kg>>

\* lines 115, 118-122: fetch(batch=1, timeout=5) returns one message, times
\* out, or raises something else
RunFetch(result) ==
    /\ sd.pc = "fetch"
    /\ result = "message" => Len(sd.outcomes) < MaxFetched
    /\ sd' = [sd EXCEPT
                !.pc = IF result = "message" THEN "handle"
                       ELSE IF result = "timeout" THEN "test" ELSE "sleep",
                !.in_progress = (result = "message"),
                !.after.fetch = IF sd.shutdown THEN @ + 1 ELSE @]
    /\ UNCHANGED <<ingestVars, sessionVars, chatVars, unitVars,
                   tc, cap, rt, pt, kg>>

\* lines 116-117, 120-121: handle_message returns or raises
RunHandle(outcome) ==
    /\ sd.pc = "handle"
    /\ sd' = [sd EXCEPT
                !.pc = IF outcome = "raised" THEN "sleep" ELSE "test",
                !.in_progress = FALSE,
                !.outcomes = Append(@, outcome),
                !.after.handle = IF sd.shutdown THEN @ + 1 ELSE @,
                !.abandoned = @ \/ (outcome = "raised" /\ sd.shutdown)]
    /\ UNCHANGED <<ingestVars, sessionVars, chatVars, unitVars,
                   tc, cap, rt, pt, kg>>

\* line 122: asyncio.sleep(1)
RunSleep ==
    /\ sd.pc = "sleep"
    /\ sd' = [sd EXCEPT !.pc = "test"]
    /\ UNCHANGED <<ingestVars, sessionVars, chatVars, unitVars,
                   tc, cap, rt, pt, kg>>

\* lines 125-127: sub.unsubscribe(), nc.drain(), close_pool(); an exception
\* of one of them ends run without the later ones
RunCleanup(ok) ==
    /\ sd.pc \in {"unsubscribe", "drain", "close_pool"}
    /\ sd' = [sd EXCEPT
                !.pc = IF ok THEN AfterCleanup(sd.pc) ELSE "crashed",
                !.cleanup = IF ok THEN Append(@, sd.pc) ELSE @]
    /\ UNCHANGED <<ingestVars, sessionVars, chatVars, unitVars,
                   tc, cap, rt, pt, kg>>

run ==
    \/ \E ok \in BOOLEAN : RunSetup(ok)
    \/ RunTest
    \/ \E result \in FetchResults : RunFetch(result)
    \/ \E outcome \in HandleOutcomes : RunHandle(outcome)
    \/ RunSleep
    \/ \E ok \in BOOLEAN : RunCleanup(ok)

(***************************************************************************)
(* Part V.b  the turn count of a session over several chat requests        *)
(***************************************************************************)

\* bound on the length of the short-term list of the session
MaxTurns == 12

\* T is the length of the list session:<id>; T0 is T when the request
\* arrived; summarized counts the calls of _summarize_and_store the request
\* led to
IdleCount == [pc |-> "idle", T |-> 0, T0 |-> 0, stream |-> FALSE,
              user |-> FALSE, summarized |-> 0]

\* chat.py line 95: if full_response
HasContentAlways(content) == TRUE
HasContent(content) == content # ""

\* a request arrives, streaming or unary, with or without a user message
TcStart(stream, user) ==
    /\ tc.pc \in {"idle", "done"}
    /\ tc.T + 2 <= MaxTurns
    /\ tc' = [tc EXCEPT !.pc = "user", !.T0 = tc.T, !.stream = stream,
                        !.user = user, !.summarized = 0]
    /\ UNCHANGED <<ingestVars, sessionVars, chatVars, unitVars,
                   sd, cap, rt, pt, kg>>

\* chat.py lines 53-61
TcUser ==
    /\ tc.pc = "user"
    /\ tc' = [tc EXCEPT !.pc = "answer", !.T = IF tc.user THEN @ + 1 ELSE @]
    /\ UNCHANGED <<ingestVars, sessionVars, chatVars, unitVars,
                   sd, cap, rt, pt, kg>>

\* chat.py lines 94-102 and 123-133: the assistant turn is appended (in
\* streaming mode only when content was collected), the list is counted and
\* maybe_promote is called with the count (in streaming mode only when
\* content was collected); summarizer.py lines 23-24
TcAnswer(content) ==
    /\ tc.pc = "answer"
    /\ LET appended == IF tc.stream THEN HasContent(content) ELSE TRUE
           promoted == IF tc.stream THEN HasContent(content) ELSE TRUE
           turn_count == IF appended THEN tc.T + 1 ELSE tc.T
       IN  tc' = [tc EXCEPT
                    !.pc = "done",
                    !.T = turn_count,
                    !.summarized = IF promoted /\ SummarizeDue(turn_count)
                                   THEN @ + 1 ELSE @]
    /\ UNCHANGED <<ingestVars, sessionVars, chatVars, unitVars,
                   sd, cap, rt, pt, kg>>

TurnCounting ==
    \/ \E stream \in BOOLEAN, user \in BOOLEAN : TcStart(stream, user)
    \/ TcUser
    \/ \E content \in Texts : TcAnswer(content)

(***************************************************************************)
(* Part V.c  a streaming response: stream_and_capture                      *)
(***************************************************************************)

\* content deltas of the backend
Deltas == {"a", "b"}

\* what chat_completion_stream yields: the role chunk, one chunk for each
\* line with content, and the stop chunk and "data: [DONE]" when the
\* backend sent done
UpstreamFrames ==
    {<<Chunk("chatcmpl-1", 1, "assistant", "null", "null")>>
        \o [i \in 1..n |-> Chunk("chatcmpl-1", 1, "null", body[i], "null")]
        \o tail :
        n \in 0..MaxLines, body \in [1..MaxLines -> Deltas],
        tail \in {<<>>, <<Chunk("chatcmpl-1", 1, "null", "null", "stop"),
                         DoneFrame>>}}

\* lines 79-90: the delta content read back from the frame, "" when the
\* frame is "data: [DONE]" or its delta has no content
DeltaContent(frame) ==
    IF frame.kind = "[DONE]" THEN ""
    ELSE IF frame.content = "null" THEN "" ELSE frame.content

\* "".join(...)
RECURSIVE Join(_)
Join(strs) == IF strs = <<>> THEN "" ELSE Head(strs) \o Join(Tail(strs))

\* chunks: what the proxy will yield; raises: the proxy raises once they are
\* out; sent: frames handed to the client; collected: collected_content;
\* short and log: assistant turns appended to the short-term list and to
\* orchestrator_messages; promoted: calls of maybe_promote
IdleCapture == [pc |-> "idle", chunks |-> <<>>, raises |-> FALSE, pos |-> 0,
                sent |-> <<>>, collected |-> <<>>, short |-> <<>>,
                log |-> <<>>, promoted |-> 0]

CaptureInputs ==
    {[IdleCapture EXCEPT !.pc = "stream", !.chunks = fs, !.raises = r] :
        fs \in UpstreamFrames, r \in BOOLEAN}

\* lines 71-90: the next chunk comes out of the proxy and its delta is kept
CapNext ==
    /\ cap.pc = "stream"
    /\ cap.pos < Len(cap.chunks)
    /\ LET delta_content == DeltaContent(cap.chunks[cap.pos + 1])
       IN  cap' = [cap EXCEPT
                     !.pc = "yield",
                     !.pos = @ + 1,
                     !.collected = IF delta_content # ""
                                   THEN Append(@, delta_content) ELSE @]
    /\ UNCHANGED <<ingestVars, sessionVars, chatVars, unitVars,
                   sd, tc, rt, pt, kg>>

\* line 91: the chunk is handed to the response and sent
CapYield ==
    /\ cap.pc = "yield"
    /\ cap' = [cap EXCEPT !.pc = "stream",
                          !.sent = Append(@, cap.chunks[cap.pos])]
    /\ UNCHANGED <<ingestVars, sessionVars, chatVars, unitVars,
                   sd, tc, rt, pt, kg>>

\* the client goes away: the response is cancelled and the generator,
\* suspended at line 91, is closed there
CapDisconnect ==
    /\ cap.pc = "yield"
    /\ cap' = [cap EXCEPT !.pc = "cancelled"]
    /\ UNCHANGED <<ingestVars, sessionVars, chatVars, unitVars,
                   sd, tc, rt, pt, kg>>

\* lines 71-78 and 94-95: the proxy is exhausted or raises
CapEnd ==
    /\ cap.pc = "stream"
    /\ cap.pos = Len(cap.chunks)
    /\ cap' = [cap EXCEPT
                 !.pc = IF cap.raises THEN "upstream_error"
                        ELSE IF HasContent(Join(cap.collected)) THEN "append"
                        ELSE "closed"]
    /\ UNCHANGED <<ingestVars, sessionVars, chatVars, unitVars,
                   sd, tc, rt, pt, kg>>

\* lines 96-99: append_turn
CapAppend(ok) ==
    /\ cap.pc = "append"
    /\ cap' = IF ok
              THEN [cap EXCEPT !.pc = "store",
                               !.short = Append(@, Join(cap.collected))]
              ELSE [cap EXCEPT !.pc = "tail_error"]
    /\ UNCHANGED <<ingestVars, sessionVars, chatVars, unitVars,
                   sd, tc, rt, pt, kg>>

\* line 100: store_message
CapStore(ok) ==
    /\ cap.pc = "store"
    /\ cap' = IF ok
              THEN [cap EXCEPT !.pc = "promote",
                               !.log = Append(@, Join(cap.collected))]
              ELSE [cap EXCEPT !.pc = "tail_error"]
    /\ UNCHANGED <<ingestVars, sessionVars, chatVars, unitVars,
                   sd, tc, rt, pt, kg>>

\* lines 101-102: get_turn_count, maybe_promote
CapPromote(ok) ==
    /\ cap.pc = "promote"
    /\ cap' = IF ok
              THEN [cap EXCEPT !.pc = "closed", !.promoted = @ + 1]
              ELSE [cap EXCEPT !.pc = "tail_error"]
    /\ UNCHANGED <<ingestVars, sessionVars, chatVars, unitVars,
                   sd, tc, rt, pt, kg>>

stream_and_capture ==
    \/ CapNext
    \/ CapYield
    \/ CapDisconnect
    \/ CapEnd
    \/ \E ok \in BOOLEAN : CapAppend(ok)
    \/ \E ok \in BOOLEAN : CapStore(ok)
    \/ \E ok \in BOOLEAN : CapPromote(ok)

(***************************************************************************)
(* Part V.d  the head of chat_completions: resolve                         *)
(***************************************************************************)

\* the keys of _ROUTES after init_routes
Aliases == {"qwen3-coder", "qwen3-coder-next", "deepseek-r1", "deepseek"}

\* the model names a request can carry
ModelNames == Aliases \cup {"gpt-4", ""}

\* router.py 17-18: _ROUTES.get(model_name) is None
UnknownNever(model_name) == FALSE
Unknown(model_name) == model_name \notin Aliases

\* effects: the calls made so far that write a session row or a log, or
\* reach a memory tier or the backend, in their order
IdleRoute == [pc |-> "idle", model |-> "", stream |-> FALSE, user |-> FALSE,
              effects |-> <<>>]

RouteInputs ==
    {[IdleRoute EXCEPT !.pc = "resolve", !.model = m, !.stream = st,
                       !.user = u] :
        m \in ModelNames, st \in BOOLEAN, u \in BOOLEAN}

\* line 43: model_router.resolve(request.model)
RtResolve ==
    /\ rt.pc = "resolve"
    /\ rt' = [rt EXCEPT !.pc = IF Unknown(rt.model) THEN "ValueError"
                               ELSE "session"]
    /\ UNCHANGED <<ingestVars, sessionVars, chatVars, unitVars,
                   sd, tc, cap, pt, kg>>

\* lines 46-50: derive_workspace, ensure_session
RtSession(ok) ==
    /\ rt.pc = "session"
    /\ rt' = IF ok
             THEN [rt EXCEPT !.pc = "user",
                             !.effects = Append(@, "ensure_session")]
             ELSE [rt EXCEPT !.pc = "raised"]
    /\ UNCHANGED <<ingestVars, sessionVars, chatVars, unitVars,
                   sd, tc, cap, pt, kg>>

\* lines 53-61: the last user message goes to both logs
RtUser(ok) ==
    /\ rt.pc = "user"
    /\ rt' = IF ~rt.user THEN [rt EXCEPT !.pc = "build"]
             ELSE IF ok
             THEN [rt EXCEPT !.pc = "build",
                             !.effects = @ \o <<"append_turn", "store_message">>]
             ELSE [rt EXCEPT !.pc = "raised",
                             !.effects = Append(@, "append_turn")]
    /\ UNCHANGED <<ingestVars, sessionVars, chatVars, unitVars,
                   sd, tc, cap, pt, kg>>

\* line 64: _build_augmented_messages reads the memory tiers
RtBuild ==
    /\ rt.pc = "build"
    /\ rt' = [rt EXCEPT !.pc = "backend", !.effects = Append(@, "memory")]
    /\ UNCHANGED <<ingestVars, sessionVars, chatVars, unitVars,
                   sd, tc, cap, pt, kg>>

\* lines 67-135: the backend is called, streaming or not
RtBackend ==
    /\ rt.pc = "backend"
    /\ rt' = [rt EXCEPT !.pc = "responded",
                        !.effects = Append(@, IF rt.stream
                                              THEN "chat_completion_stream"
                                              ELSE "chat_completion")]
    /\ UNCHANGED <<ingestVars, sessionVars, chatVars, unitVars,
                   sd, tc, cap, pt, kg>>

chat_completions_head ==
    \/ RtResolve
    \/ \E ok \in BOOLEAN : RtSession(ok)
    \/ \E ok \in BOOLEAN : RtUser(ok)
    \/ RtBuild
    \/ RtBackend

(***************************************************************************)
(* Part V.e  plain-text code blocks: _extract_code_from_plaintext          *)
(***************************************************************************)

\* bound on the runs of lines a text is made of
MaxRuns == 3

\* line 120: lines per block
MaxBlockLines == 200

\* line 134: characters a kept block has at least
MinBlockChars == 20

\* the lines of a text, each with what the scan reads off it: its length,
\* whether _is_code_start matches it, its count of "{" and of "}", and
\* whether it has a C function head (the last test of
\* detect_language_from_content)
LineKinds ==
    {[text |-> "int main() {",           len |-> 12, start |-> TRUE,
      open |-> 1, close |-> 0, chead |-> TRUE],
     [text |-> "void f() { return 0; }", len |-> 22, start |-> TRUE,
      open |-> 1, close |-> 1, chead |-> TRUE],
     [text |-> "class A {",              len |-> 9,  start |-> TRUE,
      open |-> 1, close |-> 0, chead |-> FALSE],
     [text |-> "}",                      len |-> 1,  start |-> FALSE,
      open |-> 0, close |-> 1, chead |-> FALSE],
     [text |-> "x;",                     len |-> 2,  start |-> FALSE,
      open |-> 0, close |-> 0, chead |-> FALSE]}

Filler == CHOOSE k \in LineKinds : k.text = "x;"

\* a run is one line of any kind, or MaxBlockLines - 1 lines "x;"
Runs ==
    {[line |-> k, n |-> 1] : k \in LineKinds}
        \cup {[line |-> Filler, n |-> MaxBlockLines - 1]}

PlainTexts == UNION {[1..m -> Runs] : m \in 1..MaxRuns}

RECURSIVE LineCount(_)
LineCount(text) ==
    IF text = <<>> THEN 0 ELSE Head(text).n + LineCount(Tail(text))

\* lines[k] of text.split("\n"), k counted from 0
RECURSIVE LineAt(_, _)
LineAt(text, k) ==
    IF k < Head(text).n THEN Head(text).line
    ELSE LineAt(Tail(text), k - Head(text).n)

_is_code_start(line) == line.start

\* detect_language_from_content on the lines above: only the C function
\* head gives a language
NoLanguage == "None"
detect_language_from_content(chead) == IF chead THEN "c" ELSE NoLanguage

\* line 141: where the scan goes on after a kept block
ResumeAt(i, taken, j) == j + 1

\* i, j, block_idx, brace_depth, found_brace as in the code; taken: lines
\* in code_lines; chars: len(code); chead: some line of code_lines has a C
\* function head; blocks: the kept blocks with their first and last line;
\* tested: the lines _is_code_start was asked about
IdlePlain == [pc |-> "idle", text |-> <<>>, lines |-> 0, i |-> 0, j |-> 0,
              block_idx |-> 0, brace_depth |-> 0, found_brace |-> FALSE,
              taken |-> 0, chars |-> 0, chead |-> FALSE,
              blocks |-> <<>>, tested |-> {}]

PlainInputs ==
    {[IdlePlain EXCEPT !.pc = "scan", !.text = t, !.lines = LineCount(t)] :
        t \in PlainTexts}

\* lines 109-118 and 143: the outer loop tests line i
PtTest ==
    /\ pt.pc = "scan"
    /\ pt' = IF pt.i >= pt.lines THEN [pt EXCEPT !.pc = "done"]
             ELSE IF _is_code_start(LineAt(pt.text, pt.i))
             THEN [pt EXCEPT !.pc = "collect", !.j = pt.i,
                             !.brace_depth = 0, !.found_brace = FALSE,
                             !.taken = 0, !.chars = 0, !.chead = FALSE,
                             !.tested = @ \cup {pt.i}]
             ELSE [pt EXCEPT !.i = @ + 1, !.tested = @ \cup {pt.i}]
    /\ UNCHANGED <<ingestVars, sessionVars, chatVars, unitVars,
                   sd, tc, cap, rt, kg>>

\* lines 120-131: one turn of the inner loop
PtCollect ==
    /\ pt.pc = "collect"
    /\ pt.j < pt.lines /\ pt.j - pt.i < MaxBlockLines
    /\ LET l == LineAt(pt.text, pt.j)
           depth == pt.brace_depth + l.open - l.close
           found == pt.found_brace \/ l.open > 0
       IN  pt' = [pt EXCEPT
                    !.taken = @ + 1,
                    !.chars = @ + l.len + (IF pt.taken > 0 THEN 1 ELSE 0),
                    !.chead = @ \/ l.chead,
                    !.brace_depth = depth,
                    !.found_brace = found,
                    !.j = IF found /\ depth <= 0 THEN @ ELSE @ + 1,
                    !.pc = IF found /\ depth <= 0 THEN "close" ELSE @]
    /\ UNCHANGED <<ingestVars, sessionVars, chatVars, unitVars,
                   sd, tc, cap, rt, kg>>

\* line 120: the inner loop ends at the end of the text or at the cap
PtCap ==
    /\ pt.pc = "collect"
    /\ ~(pt.j < pt.lines /\ pt.j - pt.i < MaxBlockLines)
    /\ pt' = [pt EXCEPT !.pc = "close"]
    /\ UNCHANGED <<ingestVars, sessionVars, chatVars, unitVars,
                   sd, tc, cap, rt, kg>>

\* lines 133-143: the block is kept or dropped
PtClose ==
    /\ pt.pc = "close"
    /\ pt' = IF /\ pt.chars >= MinBlockChars
                /\ pt.found_brace
                /\ detect_language_from_content(pt.chead) # NoLanguage
             THEN [pt EXCEPT
                     !.pc = "scan",
                     !.blocks = Append(@, [first |-> pt.i,
                                           last |-> pt.i + pt.taken - 1,
                                           chars |-> pt.chars,
                                           brace |-> pt.found_brace,
                                           index |-> pt.block_idx]),
                     !.block_idx = @ + 1,
                     !.i = ResumeAt(pt.i, pt.taken, pt.j)]
             ELSE [pt EXCEPT !.pc = "scan", !.i = @ + 1]
    /\ UNCHANGED <<ingestVars, sessionVars, chatVars, unitVars,
                   sd, tc, cap, rt, kg>>

_extract_code_from_plaintext ==
    \/ PtTest
    \/ PtCollect
    \/ PtCap
    \/ PtClose

(***************************************************************************)
(* Part V.f  the KG store patch: workspace_patch                           *)
(***************************************************************************)

\* bound on the requests in flight
MaxRequests == 2

KgRequests == 1..MaxRequests

\* values of the LIGHTRAG-WORKSPACE header; "" is a request without it
Headers == {"", " ", "b"}

\* line 18: os.getenv("WORKSPACE", "default")
DefaultWorkspace == "default"

\* values assigned to a workspace attribute
Assigned == {"x"}

KgWorkspaces == {DefaultWorkspace, "b"}

\* .strip() on the headers above
strip(h) == IF h = " " THEN "" ELSE h

\* lines 59-61
HeaderWorkspace(h) == IF strip(h) = "" THEN DefaultWorkspace ELSE strip(h)

\* lines 17-19: the context a task of request r reads and sets
\* _current_workspace in; every task has its own
SharedContext(r) == 0
ContextOf(r) == r

\* one request: ws as in dispatch, reads: the values the application read
\* from a workspace attribute, assigned: the application assigned one
IdleKgRequest == [pc |-> "idle", header |-> "", ws |-> "", reads |-> {},
                  assigned |-> FALSE]

\* ctx: the value of _current_workspace in each context, 0 being the
\* context the server was started in; initialized: _initialized_workspaces;
\* calls, failures: calls of initialize_pipeline_status begun and failed
IdleKg == [ctx |-> [c \in 0..MaxRequests |-> DefaultWorkspace],
           initialized |-> {},
           calls |-> [w \in KgWorkspaces |-> 0],
           failures |-> [w \in KgWorkspaces |-> 0],
           rq |-> [r \in KgRequests |-> IdleKgRequest]]

\* lines 30-31 while the application is built: __set__ in the context of
\* the server, before any request
KgStartupAssign(v) ==
    /\ \A r \in KgRequests : kg.rq[r].pc = "idle"
    /\ kg.ctx[0] # v
    /\ kg' = [kg EXCEPT !.ctx = [c \in 0..MaxRequests |-> v]]
    /\ UNCHANGED <<ingestVars, sessionVars, chatVars, unitVars,
                   sd, tc, cap, rt, pt>>

\* a request arrives: its task starts with a copy of the server's context
KgArrive(r, h) ==
    /\ kg.rq[r].pc = "idle"
    /\ kg' = [kg EXCEPT !.rq[r].pc = "dispatch",
                        !.rq[r].header = h,
                        !.ctx[ContextOf(r)] = kg.ctx[0]]
    /\ UNCHANGED <<ingestVars, sessionVars, chatVars, unitVars,
                   sd, tc, cap, rt, pt>>

\* lines 59-62
KgSet(r) ==
    /\ kg.rq[r].pc = "dispatch"
    /\ LET ws == HeaderWorkspace(kg.rq[r].header)
       IN  kg' = [kg EXCEPT !.rq[r].pc = "check",
                            !.rq[r].ws = ws,
                            !.ctx[ContextOf(r)] = ws]
    /\ UNCHANGED <<ingestVars, sessionVars, chatVars, unitVars,
                   sd, tc, cap, rt, pt>>

\* lines 64-65: the test, and the call of initialize_pipeline_status begun
KgCheck(r) ==
    /\ kg.rq[r].pc = "check"
    /\ kg' = IF kg.rq[r].ws \notin kg.initialized
             THEN [kg EXCEPT !.rq[r].pc = "init",
                             !.calls[kg.rq[r].ws] = @ + 1]
             ELSE [kg EXCEPT !.rq[r].pc = "next"]
    /\ UNCHANGED <<ingestVars, sessionVars, chatVars, unitVars,
                   sd, tc, cap, rt, pt>>

\* lines 65-66: the call returns and the workspace is marked, or it raises
KgInit(r, ok) ==
    /\ kg.rq[r].pc = "init"
    /\ kg' = IF ok
             THEN [kg EXCEPT !.rq[r].pc = "next",
                             !.initialized = @ \cup {kg.rq[r].ws}]
             ELSE [kg EXCEPT !.rq[r].pc = "raised",
                             !.failures[kg.rq[r].ws] = @ + 1]
    /\ UNCHANGED <<ingestVars, sessionVars, chatVars, unitVars,
                   sd, tc, cap, rt, pt>>

\* line 67: call_next; the application runs with the context of dispatch
KgCallNext(r) ==
    /\ kg.rq[r].pc = "next"
    /\ kg' = [kg EXCEPT !.rq[r].pc = "app"]
    /\ UNCHANGED <<ingestVars, sessionVars, chatVars, unitVars,
                   sd, tc, cap, rt, pt>>

\* lines 25-28: __get__ during the handling of request r
KgRead(r) ==
    /\ kg.rq[r].pc = "app"
    /\ kg.ctx[ContextOf(r)] \notin kg.rq[r].reads
    /\ kg' = [kg EXCEPT !.rq[r].reads = @ \cup {kg.ctx[ContextOf(r)]}]
    /\ UNCHANGED <<ingestVars, sessionVars, chatVars, unitVars,
                   sd, tc, cap, rt, pt>>

\* lines 30-31: __set__ during the handling of request r
KgAssign(r, v) ==
    /\ kg.rq[r].pc = "app"
    /\ kg.ctx[ContextOf(r)] # v
    /\ kg' = [kg EXCEPT !.rq[r].assigned = TRUE,
                        !.ctx[ContextOf(r)] = v]
    /\ UNCHANGED <<ingestVars, sessionVars, chatVars, unitVars,
                   sd, tc, cap, rt, pt>>

\* line 67: the response is returned
KgReturn(r) ==
    /\ kg.rq[r].pc = "app"
    /\ kg' = [kg EXCEPT !.rq[r].pc = "done"]
    /\ UNCHANGED <<ingestVars, sessionVars, chatVars, unitVars,
                   sd, tc, cap, rt, pt>>

dispatch ==
    \/ \E v \in Assigned : KgStartupAssign(v)
    \/ \E r \in KgRequests, h \in Headers : KgArrive(r, h)
    \/ \E r \in KgRequests : KgSet(r)
    \/ \E r \in KgRequests : KgCheck(r)
    \/ \E r \in KgRequests, ok \in BOOLEAN : KgInit(r, ok)
    \/ \E r \in KgRequests : KgCallNext(r)
    \/ \E r \in KgRequests : KgRead(r)
    \/ \E r \in KgRequests, v \in Assigned : KgAssign(r, v)
    \/ \E r \in KgRequests : KgReturn(r)

(***************************************************************************)
(* Part I.f  specifications of the ingest pipeline                         *)
(***************************************************************************)

InitLateIdle ==
    /\ sd = IdleRun
    /\ tc = IdleCount
    /\ cap = IdleCapture
    /\ rt = IdleRoute
    /\ pt = IdlePlain
    /\ kg = IdleKg

InitUnitsIdle ==
    /\ InitLateIdle
    /\ conv = IdleConv
    /\ san = IdleSan
    /\ cb = IdleCodebase
    /\ arch = IdleArchive
    /\ ext = IdleExtract

InitSessions ==
    /\ sessions = [s \in Sessions |-> NoSession]
    /\ msglog = [s \in Sessions |-> 0]
    /\ task = [t \in Tasks |-> IdleTask]

InitIngest ==
    /\ blob = [j \in Jobs |-> "none"]
    /\ jobs = [j \in Jobs |-> NoRow]
    /\ req = [j \in Jobs |-> IdleReq]
    /\ msgState = [m \in Msgs |-> "unpublished"]
    /\ payload = [m \in Msgs |-> [kind |-> "none", jtype |-> "none"]]
    /\ deliveries = [m \in Msgs |-> 0]
    /\ wk = [w \in Workers |-> IdleWorker]
    /\ started = [j \in Jobs |-> 0]
    /\ missed = {}

Init == InitIngest /\ netUp = TRUE /\ InitSessions /\ InitChatIdle
        /\ InitUnitsIdle

\* any number of workers, workers that stop, a preprocessor that comes and goes
Next ==
    \/ Producer
    \/ Broker
    \/ NetFlip
    \/ \E w \in Workers : Run(w) \/ Stop(w)

Spec == Init /\ [][Next]_vars

\* workers that keep running, foreign messages on the stream, fair scheduling
\* of the broker and of every worker
NextQueue ==
    \/ Producer
    \/ Broker
    \/ Intruder
    \/ NetFlip
    \/ \E w \in Workers : Run(w)

SpecQueue ==
    /\ Init
    /\ [][NextQueue]_vars
    /\ \A w \in Workers : WF_vars(Run(w))

\* scenario "retry exhaustion": one worker that keeps running, a preprocessor
\* that fails every call
InitRetry == InitIngest /\ netUp = FALSE /\ InitSessions /\ InitChatIdle
             /\ InitUnitsIdle

NextRetry ==
    \/ Producer
    \/ Broker
    \/ Run("w1")

SpecRetry == InitRetry /\ [][NextRetry]_vars

(***************************************************************************)
(* Part I.g  properties of the ingest pipeline                             *)
(***************************************************************************)

\* handle_message invocations for job j that are between mark_job_started and
\* their final ack, nak or term
Writers(j) == {w \in Workers : wk[w].msg = j /\ wk[w].pc \in
                  {"process", "complete", "ack", "fail", "term", "reset", "nak"}}

Handlers(m) == {w \in Workers : wk[w].msg = m}

\* C1: every job row whose status is not failed has attempts <= max_redeliveries
C1_AttemptsBounded ==
    \A j \in Jobs : jobs[j].status # "failed" => jobs[j].attempts <= max_redeliveries

\* C2: a row with status completed never changes again (status, attempts,
\* error, result), whatever handle_message invocations are still in progress
C2_CompletedIsTerminal ==
    [][\A j \in Jobs : jobs[j].status = "completed" => jobs'[j] = jobs[j]]_vars

\* a job whose processing raises on every delivery while the preprocessor
\* stays down: a document job, or a codebase job whose upload yields no files
Doomed(j) ==
    \/ jobs[j].jtype = "document" /\ ~netUp
    \/ jobs[j].jtype = "codebase" /\ blob[j] = "other"

\* C3: retry exhaustion with one worker: the row of a job that raises on
\* every delivery is set to processing at most R times, deliveries 1..R-1 end
\* with the row queued and a nak, delivery R ends with the row failed and a
\* term, attempts = R at the end, and a terminated message is never delivered
\* again
C3_RetryExhaustion ==
    /\ [](\A j \in Jobs : Doomed(j) =>
            /\ started[j] <= max_redeliveries
            /\ deliveries[j] <= max_redeliveries
            /\ jobs[j].attempts = started[j]
            /\ msgState[j] # "acked"
            /\ \A w \in Handlers(j) : wk[w].pc \notin {"complete", "ack"}
            /\ msgState[j] = "termed" =>
                  /\ started[j] = max_redeliveries
                  /\ deliveries[j] = max_redeliveries
                  /\ jobs[j].attempts = max_redeliveries
                  /\ jobs[j].status = "failed")
    /\ [][\A w \in Workers : \A j \in Jobs : (wk[w].msg = j /\ Doomed(j)) =>
            /\ (wk[w].pc = "fail" /\ wk'[w].pc # "fail") =>
                  /\ jobs'[j].status = "failed"
                  /\ wk'[w].pc = IF deliveries[j] < max_redeliveries
                                 THEN "reset" ELSE "term"
            /\ (wk[w].pc = "nak" /\ wk'[w].pc # "nak") =>
                  /\ deliveries[j] < max_redeliveries
                  /\ jobs[j].status = "queued"
                  /\ msgState'[j] = "pending"
            /\ (wk[w].pc = "term" /\ wk'[w].pc # "term") =>
                  /\ deliveries[j] = max_redeliveries
                  /\ jobs[j].status = "failed"
                  /\ msgState'[j] = "termed"]_vars
    /\ [][\A j \in Jobs : msgState[j] = "termed" =>
            msgState'[j] = "termed" /\ deliveries'[j] = deliveries[j]]_vars

\* C3 witness: a doomed job was retried R times and its message terminated
C3_Witness ==
    \E j \in Jobs : /\ Doomed(j)
                    /\ msgState[j] = "termed"
                    /\ started[j] = max_redeliveries
                    /\ jobs[j].status = "failed"

\* C4: a malformed message is terminated on its first delivery: once it was
\* delivered and no handler holds it any more, it is terminated
C4_PoisonTerminated ==
    \A m \in Foreign :
        (payload[m].kind \in Malformed /\ deliveries[m] >= 1 /\ Handlers(m) = {})
            => msgState[m] = "termed"

\* C5: at most one handle_message invocation per job is between
\* mark_job_started and its final ack, nak or term
C5_SingleWriter == \A j \in Jobs : Cardinality(Writers(j)) <= 1

\* C6: a delivery whose every call to the preprocessor failed never ends with
\* the row completed
C6_WholeJobFailure ==
    /\ \A w \in Workers : wk[w].pc \in {"complete", "ack"} =>
            wk[w].out # "all_batches_failed"
    /\ \A j \in Jobs : jobs[j].status = "completed" =>
            jobs[j].result # "all_batches_failed"

\* C7: every published job ends completed with its message acked, or failed
\* with its message terminated, after at most R passes through processing:
\* once the message has left the queue and no handler holds it, nothing will
\* change the row any more, so the row must then show the final outcome
C7_FinalOutcome ==
    \A j \in Jobs :
        /\ started[j] <= max_redeliveries
        /\ (msgState[j] \in {"acked", "termed"} /\ Handlers(j) = {}) =>
              \/ jobs[j].status = "completed" /\ msgState[j] = "acked"
              \/ jobs[j].status = "failed" /\ msgState[j] = "termed"

\* C8: no request ends with a job row for which no message was published
C8_NoOrphanJob ==
    \A j \in Jobs :
        (req[j].pc \in {"done", "error"} /\ jobs[j].status # "absent")
            => msgState[j] # "unpublished"

\* C9: blob before job row before message, so that no worker handling a
\* message of an ingest endpoint misses the job row or the blob
C9_ProducerOrdering ==
    /\ \A j \in Jobs : jobs[j].status # "absent" => blob[j] # "none"
    /\ \A j \in Jobs : msgState[j] # "unpublished" => jobs[j].status # "absent"
    /\ \A j \in Jobs : (jobs[j].status # "absent" /\ msgState[j] = "unpublished")
            => jobs[j] = NewRow(req[j].jtype)
    /\ missed \cap Jobs = {}

\* C9 witness: a worker has looked up the row and the blob of a published job
C9_Witness ==
    \E w \in Workers : wk[w].msg \in Jobs /\ wk[w].pc \in {"complete", "fail"}

(***************************************************************************)
(* Part II.c  specification and properties of the session store            *)
(***************************************************************************)

InitSession == InitIngest /\ netUp = TRUE /\ InitSessions /\ InitChatIdle
               /\ InitUnitsIdle

NextSession ==
    \/ \E s \in Sessions : SessionStore(s)
    \/ \E t \in Tasks : Promoter(t)

SpecSession == InitSession /\ [][NextSession]_vars

\* C10: for every session row, summary is null iff summary_vector is null
C10_SummaryIffVector ==
    \A s \in Sessions :
        (sessions[s].summary = "null") <=> (sessions[s].summary_vector = "null")

\* C10 witness: a session row was given a summary by the promoter
C10_Witness ==
    \E s \in Sessions : sessions[s].present /\ sessions[s].summary # "null"

(***************************************************************************)
(* Part III.d  specifications and properties of the chat path              *)
(***************************************************************************)

\* the composer applied to every request of at most MaxLen messages
InitComposer ==
    /\ InitIngest /\ netUp = TRUE /\ InitUnitsIdle /\ InitSessions
    /\ chat = [r \in Requests |-> IdleChat]
    /\ turns = [s \in Sessions |-> 0]
    /\ strm = IdleStream
    /\ comp \in ComposerInputs

NextComposer == Compose

SpecComposer == InitComposer /\ [][NextComposer]_vars

\* the streaming proxy applied to every backend stream of at most MaxLines
InitStream ==
    /\ InitIngest /\ netUp = TRUE /\ InitUnitsIdle /\ InitSessions
    /\ chat = [r \in Requests |-> IdleChat]
    /\ turns = [s \in Sessions |-> 0]
    /\ comp = IdleComp
    /\ strm \in StreamInputs

NextStream == chat_completion_stream

SpecStream == InitStream /\ [][NextStream]_vars

\* session rows that exist before the requests of the model arrive
SessionRows ==
    {NoSession} \cup
    {[present |-> TRUE, workspace |-> ws, summary |-> sm,
      summary_vector |-> IF sm = "null" THEN "null" ELSE "vector"] :
        ws \in Workspaces, sm \in {"null", "text"}}

\* chat requests on sessions that may exist already, each with as many
\* entries in the short-term buffer as in the message log
InitChat ==
    /\ InitIngest /\ netUp = TRUE /\ InitUnitsIdle
    /\ task = [t \in Tasks |-> IdleTask]
    /\ chat = [r \in Requests |-> IdleChat]
    /\ comp = IdleComp
    /\ strm = IdleStream
    /\ sessions \in [Sessions -> SessionRows]
    /\ msglog \in [Sessions -> PriorCounts]
    /\ turns = msglog
    /\ \A s \in Sessions :
          /\ ~sessions[s].present => msglog[s] = 0
          /\ sessions[s].summary # "null" => msglog[s] >= promote_after_turns

NextChat ==
    \/ \E r \in Requests : chat_completions(r)
    \/ \E t \in Tasks : PromoterRun(t)
    \/ \E s \in Sessions : Expire(s)

SpecChat == InitChat /\ [][NextChat]_vars

(***************************************************************************)
(* Part IV.e  specifications of the concurrent requests and of the units   *)
(***************************************************************************)

InitOthersIdle ==
    InitIngest /\ netUp = TRUE /\ InitSessions /\ InitChatIdle /\ InitLateIdle

\* two chat requests on one session id, in every interleaving
InitConv ==
    /\ InitOthersIdle
    /\ conv = IdleConv /\ san = IdleSan /\ cb = IdleCodebase
    /\ arch = IdleArchive /\ ext = IdleExtract

NextConv == \E c \in Clients : Conversation(c)

SpecConv == InitConv /\ [][NextConv]_vars

\* one call of _sanitize on any name
InitSanitize ==
    /\ InitOthersIdle
    /\ conv = IdleConv /\ cb = IdleCodebase
    /\ arch = IdleArchive /\ ext = IdleExtract
    /\ san \in {[IdleSan EXCEPT !.pc = "called", !.name = n] : n \in Names}

SpecSanitize == InitSanitize /\ [][Sanitize]_vars

\* one call of process_codebase
InitCodebase ==
    /\ InitOthersIdle
    /\ conv = IdleConv /\ san = IdleSan
    /\ arch = IdleArchive /\ ext = IdleExtract
    /\ cb \in CodebaseInputs

SpecCodebase == InitCodebase /\ [][process_codebase_run]_vars

\* one call of _extract_archive
InitArchive ==
    /\ InitOthersIdle
    /\ conv = IdleConv /\ san = IdleSan /\ cb = IdleCodebase
    /\ ext = IdleExtract
    /\ arch \in ArchiveInputs

SpecArchive == InitArchive /\ [][_extract_archive]_vars

\* one call of parse_file
InitExtract ==
    /\ InitOthersIdle
    /\ conv = IdleConv /\ san = IdleSan /\ cb = IdleCodebase
    /\ arch = IdleArchive
    /\ ext \in ExtractInputs

SpecExtract == InitExtract /\ [][parse_file]_vars

SystemEntries(ms) == {i \in DOMAIN ms : ms[i].role = "system"}

\* C11: the list returned by _build_augmented_messages holds at most one
\* entry with role system, whatever the request
C11_AtMostOneSystem ==
    comp.pc = "returned" => Cardinality(SystemEntries(comp.out)) <= 1

\* C12: the non-system messages of the request are, in their order, the last
\* entries of the list returned by _build_augmented_messages
C12_NonSystemAtTail ==
    comp.pc = "returned" =>
        LET ns == NonSystem(comp.messages)
            n == Len(ns)
            L == Len(comp.out)
        IN  L >= n /\ SubSeq(comp.out, L - n + 1, L) = ns

(***************************************************************************)
(* C13 - C19                                                               *)
(***************************************************************************)

\* the awaited memory-tier calls of chat_completions before the backend call
BeforeBackend == {"ensure", "append_user", "store_user", "build"}

\* C13: no chat request fails because a memory tier failed before the
\* backend call
C13_MemoryFailureSwallowed ==
    \A r \in Requests : chat[r].pc = "error" => chat[r].at \notin BeforeBackend

\* C14: a promoter run is in progress only once the response of its request
\* is complete (for streaming: once the response body has ended)
C14_PromoterOffCriticalPath ==
    \A r \in Requests :
        (chat[r].pc # "idle" /\ task[TaskOf(r)].pc # "idle")
            => chat[r].resp = "complete"

\* C15: the turn count read for maybe_promote equals the number of rows of
\* the session in the message log
C15_TurnCountIsLogLength ==
    \A r \in Requests :
        chat[r].pc \in {"promote", "return"} => chat[r].T = msglog[chat[r].sid]

SumSteps == {"sum_messages", "sum_call", "sum_embed", "sum_update"}
ArchSteps == {"arch_info", "arch_reread", "arch_ingest"}

\* the run of task tk has reached _promote_to_archival
InArchival(tk) == tk.pc \in ArchSteps \/ (tk.pc \in SumSteps /\ tk.nested)

\* C16: a maybe_promote call starts with _summarize_and_store iff T >= P and
\* T mod P = 0; it is in _promote_to_archival only if T >= A and T mod A = 0,
\* and a call for which T >= A and T mod A = 0 does not end before it has
\* reached _promote_to_archival
C16_PromotionTriggers ==
    [][\A t \in Tasks :
          /\ (task[t].pc = "idle" /\ task'[t].pc # "idle") =>
                /\ (task'[t].pc = "sum_messages") <=> SummarizeDue(task'[t].turns)
                /\ (task'[t].pc = "arch_info") <=>
                      (~SummarizeDue(task'[t].turns) /\ ArchiveDue(task'[t].turns))
          /\ InArchival(task[t]) => ArchiveDue(task[t].turns)
          /\ (task[t].pc # "idle" /\ task'[t].pc = "idle"
                /\ ArchiveDue(task[t].turns)) => InArchival(task[t])]_vars

\* C17: the summary of a session is sent to the KG ingest endpoint under the
\* workspace stored on the row of that session
C17_ArchivalInSessionWorkspace ==
    \A t \in Tasks :
        (task[t].pc = "arch_ingest" /\ sessions[task[t].sid].present)
            => task[t].ws = sessions[task[t].sid].workspace

\* C18: the recall context of a request is made only of summaries of sessions
\* whose stored workspace is the workspace of the request and whose id is not
\* the session id of the request
C18_RecallIsolation ==
    \A r \in Requests : \A e \in chat[r].recall :
        e.workspace = chat[r].ws /\ e.sid # chat[r].sid

\* C18 witness: the prompt of a request carries the summary of another session
C18_Witness ==
    \E r \in Requests : chat[r].pc = "backend" /\ chat[r].recall # {}

\* C19: a response that has started or is complete carries the header
\* X-Session-Id with the resolved session id
C19_SessionIdHeader ==
    \A r \in Requests :
        chat[r].resp \in {"started", "complete"} => chat[r].header = chat[r].sid

(***************************************************************************)
(* C20                                                                     *)
(***************************************************************************)

\* the content chunks the backend lines ls call for, in backend order
RECURSIVE ContentChunks(_, _, _)
ContentChunks(id, created, ls) ==
    IF ls = <<>> THEN <<>>
    ELSE (IF ~Head(ls).blank /\ Head(ls).content # ""
          THEN <<Chunk(id, created, "null", Head(ls).content, "null")>>
          ELSE <<>>)
         \o ContentChunks(id, created, Tail(ls))

\* C20: a stream that ended without upstream error is: the role chunk, one
\* content chunk per backend line with content, the finish_reason=stop chunk
\* and [DONE], all chunks with the id and created of the response
C20_StreamingProtocol ==
    strm.pc = "closed" =>
        strm.frames =
            <<Chunk(strm.id, strm.created, "assistant", "null", "null")>>
            \o ContentChunks(strm.id, strm.created, strm.lines)
            \o <<Chunk(strm.id, strm.created, "null", "null", "stop"), DoneFrame>>

(***************************************************************************)
(* C21, C28, C29                                                           *)
(***************************************************************************)

\* C21: a request that failed because of the backend got a failure response
\* and no success status or SSE chunk before it
C21_BackendErrorSurfaces ==
    \A r \in Requests :
        (chat[r].pc = "error" /\ chat[r].at \in {"backend", "streaming"})
            => chat[r].resp = "error"

\* the status changes of the job state machine
StatusChanges == {<<"queued", "processing">>, <<"processing", "processing">>,
                  <<"processing", "completed">>, <<"processing", "failed">>,
                  <<"failed", "queued">>}

\* C28: every write of the worker to a job row is one of the status changes
\* of the state machine, failed -> queued only with attempts < R; nothing
\* leaves completed or a terminally failed row
C28_JobStateMachine ==
    [][\A j \in Jobs :
          (jobs[j].status # "absent" /\ jobs'[j] # jobs[j]) =>
              /\ <<jobs[j].status, jobs'[j].status>> \in StatusChanges
              /\ (jobs[j].status = "failed" /\ jobs'[j].status = "queued")
                    => jobs[j].attempts < max_redeliveries]_vars

\* C29: attempts counts the executions of mark_job_started, and the attempt
\* number compared with max_redeliveries in the failure branch is the
\* attempts of the row at that moment
C29_AttemptAccounting ==
    /\ \A j \in Jobs : jobs[j].attempts = started[j]
    /\ \A w \in Workers :
          (wk[w].pc = "fail" /\ wk[w].msg \in Jobs)
              => wk[w].snap + 1 = jobs[wk[w].msg].attempts

\* C22: per session, the turns appended to the short-term log are in the same
\* order as the rows inserted into the persistent message log, in every
\* interleaving of concurrent requests on the session
C22_SameOrderInBothLogs ==
    \A i, j \in DOMAIN conv.short : \A k, l \in DOMAIN conv.log :
        (i < j /\ conv.short[i] = conv.log[k] /\ conv.short[j] = conv.log[l])
            => k < l

Range(f) == {f[i] : i \in DOMAIN f}

\* C23: the short-term turn the composer drops is the user message the
\* request itself appended, so that message is not in the history part of
\* the augmented list (it appears once, as the request's own message), in
\* every interleaving of concurrent requests on the session
C23_DropsOwnUserMessage ==
    \A c \in Clients :
        conv.dropped[c] # NoTurn =>
            /\ conv.dropped[c] = Turn(c, "user")
            /\ Turn(c, "user") \notin Range(conv.history[c])

\* C24: _sanitize returns 1 to 64 characters of [A-Za-z0-9_-], and returns
\* a name of that form unchanged (so applying it twice changes nothing)
C24_SanitizeForm ==
    san.pc = "returned" =>
        /\ Len(san.out) \in 1..NameCap
        /\ \A i \in DOMAIN san.out : san.out[i] \in WordChars
        /\ (/\ Len(san.name) \in 1..NameCap
            /\ \A i \in DOMAIN san.name : san.name[i] \in WordChars)
               => san.out = san.name
        /\ sanitize(san.out) = san.out

\* a name longer than the cap was cut
C24_Witness ==
    /\ san.pc = "returned"
    /\ Len(san.name) > NameCap
    /\ Len(san.out) = NameCap
    /\ \E i \in DOMAIN san.name : san.name[i] \notin WordChars

RECURSIVE Flatten(_)
Flatten(bs) == IF bs = <<>> THEN <<>> ELSE Head(bs).files \o Flatten(Tail(bs))

RECURSIVE SumDocs(_)
SumDocs(bs) ==
    IF bs = <<>> THEN 0
    ELSE (IF Head(bs).ok THEN Head(bs).docs ELSE 0) + SumDocs(Tail(bs))

FailedBatches == {k \in DOMAIN cb.batches : ~cb.batches[k].ok}
BatchErrors(errors) == SelectSeq(errors, LAMBDA e : e.kind = "batch")

\* C25: process_codebase sends every extracted file in exactly one batch,
\* in extraction order and at most batch_size files a batch; a failed batch
\* is recorded in errors and neither stops the later batches nor fails the
\* call; files_found is the number of extracted files and documents_sent the
\* sum over the batches that succeeded
C25_CodebaseBatching ==
    /\ \A k \in DOMAIN cb.batches :
          Len(cb.batches[k].files) \in 1..batch_size
    /\ Flatten(cb.batches) =
          [i \in 1..(IF cb.batch_start < cb.n THEN cb.batch_start ELSE cb.n)
              |-> i]
    /\ cb.pc = "raised" => cb.batches = <<>>
    /\ cb.pc = "returned" =>
          /\ Flatten(cb.batches) = [i \in 1..cb.n |-> i]
          /\ cb.result.files_found = cb.n
          /\ cb.result.documents_sent = SumDocs(cb.batches)
          /\ Len(BatchErrors(cb.result.errors)) = Cardinality(FailedBatches)
          /\ \A k \in FailedBatches :
                \E i \in DOMAIN cb.result.errors :
                    cb.result.errors[i] = [kind |-> "batch", batch |-> k - 1]

\* three batches, the last one partial, the first failed, a later one sent
\* documents
C25_Witness ==
    /\ cb.pc = "returned"
    /\ Len(cb.batches) = 3
    /\ Len(cb.batches[3].files) < batch_size
    /\ ~cb.batches[1].ok
    /\ cb.result.documents_sent > 0

\* C30: when the unpacker returns no file, process_codebase raises: it never
\* returns a result with files_found = 0 and sends no batch to the
\* preprocessor
C30_NoFilesRaises ==
    /\ cb.pc \in {"loop", "returned"} => cb.n > 0
    /\ cb.pc = "returned" => cb.result.files_found > 0
    /\ cb.n = 0 => cb.batches = <<>>

\* a stored archive from which nothing was extracted
C30_Witness ==
    /\ cb.pc = "raised"
    /\ cb.blob
    /\ cb.n = 0

\* C26: the list _extract_archive returns has at most 2,000 entries, no
\* member it is to return was passed over before the cap was reached, and
\* every entry is a regular file matching no skip rule: no segment starting
\* with ".", no segment in the skip-directory set, suffix not in the
\* skip-extension set, and 0 < size <= 1 MiB
C26_UnpackerEntries ==
    /\ arch.n <= _MAX_FILES
    /\ ~arch.lost
    /\ arch.last # NoMember => Eligible(arch.last)

\* C27: every entity parse_file emits has line_start <= line_end, and the
\* source of every relationship it emits (contains, imports, extends,
\* implements) is the name of an entity emitted for the file, the module
\* entity included
C27_ExtractorOutput ==
    /\ \A e \in ext.entities : e.line_start <= e.line_end
    /\ \A r \in ext.relationships :
          \E e \in ext.entities : e.name = r.source

\* a class with a superclass and a method, and an import at module level
C27_Witness ==
    /\ ext.pc = "parsed"
    /\ \E e \in ext.entities : e.kind = "method"
    /\ \E r \in ext.relationships :
          r.kind = "contains" /\ r.source \in NodeNames
    /\ \E r \in ext.relationships :
          r.kind = "extends" /\ r.source \in NodeNames
    /\ \E r \in ext.relationships :
          r.kind = "imports" /\ r.source = ModuleName

(***************************************************************************)
(* Part V.g  specifications of the worker process and the later units      *)
(***************************************************************************)

InitRun ==
    /\ InitIngest /\ netUp = TRUE /\ InitSessions /\ InitChatIdle
    /\ conv = IdleConv /\ san = IdleSan /\ cb = IdleCodebase
    /\ arch = IdleArchive /\ ext = IdleExtract
    /\ sd = StartedRun
    /\ tc = IdleCount /\ cap = IdleCapture /\ rt = IdleRoute
    /\ pt = IdlePlain /\ kg = IdleKg

NextRun == Signal \/ run

SpecRun == InitRun /\ [][NextRun]_vars

\* the event loop runs the coroutine as long as it can take a step
SpecRunFair == SpecRun /\ WF_vars(run)

IsPrefix(a, b) == Len(a) <= Len(b) /\ a = SubSeq(b, 1, Len(a))

\* C31: once the shutdown flag is set the loop ends after at most the fetch
\* and the one call of handle_message under way, that call ends with its ack,
\* nak or term, and only after the loop come unsubscribe, drain and
\* close_pool, in that order
C31_GracefulShutdown ==
    /\ sd.after.fetch <= 1 /\ sd.after.handle <= 1
    /\ ~sd.abandoned
    /\ IsPrefix(sd.cleanup, CleanupOrder)
    /\ sd.pc \in {"unsubscribe", "drain", "close_pool", "exited"} =>
          sd.shutdown /\ ~sd.in_progress

\* the loop ends once the flag is set
C31_LoopEnds ==
    sd.shutdown ~> sd.pc \in {"unsubscribe", "drain", "close_pool",
                              "exited", "crashed"}

\* C32: a failure inside maybe_promote ends the task and nothing else; an
\* empty answer of the summarizer, or a failure at the summarizer or the
\* embedder, leaves every session row as it was, and a summary that is
\* written is the non-empty answer
C32_PromoterContained ==
    [][\A t \in Tasks :
          /\ (/\ task[t].pc \in {"sum_call", "sum_embed"}
              /\ task'[t] # task[t]
              /\ task'[t].pc \notin {"sum_embed", "sum_update"})
                => sessions' = sessions
          /\ (task[t].pc = "sum_update" /\ task'[t] # task[t]) =>
                \A s \in Sessions :
                    sessions'[s] # sessions[s] =>
                        /\ s = task[t].sid
                        /\ sessions'[s].summary = "text"
                        /\ sessions'[s].summary_vector = "vector"
          /\ task'[t].pc \in {"idle", "sum_messages"} \cup SumSteps \cup ArchSteps
      ]_vars

\* the embedder is being called for a session that has a summary already
C32_Witness ==
    \E t \in Tasks :
        /\ task[t].pc = "sum_embed"
        /\ sessions[task[t].sid].present
        /\ sessions[task[t].sid].summary = "text"

InitCount ==
    /\ InitIngest /\ netUp = TRUE /\ InitSessions /\ InitChatIdle
    /\ conv = IdleConv /\ san = IdleSan /\ cb = IdleCodebase
    /\ arch = IdleArchive /\ ext = IdleExtract
    /\ sd = IdleRun /\ tc = IdleCount
    /\ cap = IdleCapture /\ rt = IdleRoute /\ pt = IdlePlain /\ kg = IdleKg

SpecCount == InitCount /\ [][TurnCounting]_vars

\* the response took the turn count from below a positive multiple of
\* promote_after_turns to that multiple or beyond
Crossed(before, after) ==
    \E k \in 1..MaxTurns :
        before < k * promote_after_turns /\ k * promote_after_turns <= after

\* C33: a response that takes the turn count of the session across a
\* positive multiple of promote_after_turns leads to exactly one call of
\* _summarize_and_store
C33_EveryCrossingSummarized ==
    (tc.pc = "done" /\ Crossed(tc.T0, tc.T)) => tc.summarized = 1

InitCapture ==
    /\ InitIngest /\ netUp = TRUE /\ InitSessions /\ InitChatIdle
    /\ conv = IdleConv /\ san = IdleSan /\ cb = IdleCodebase
    /\ arch = IdleArchive /\ ext = IdleExtract
    /\ sd = IdleRun /\ tc = IdleCount /\ cap \in CaptureInputs
    /\ rt = IdleRoute /\ pt = IdlePlain /\ kg = IdleKg

SpecCapture == InitCapture /\ [][stream_and_capture]_vars

\* the content deltas of the frames the client received, in their order
SentDeltas ==
    SelectSeq([i \in DOMAIN cap.sent |-> DeltaContent(cap.sent[i])],
              LAMBDA d : d # "")

\* C34: when the streaming response has run to its end, the assistant turn
\* in the short-term list and in orchestrator_messages is the concatenation
\* of the content deltas sent, in order; it is appended once to each, only
\* after the last frame was sent, and not at all when it is empty
C34_StreamedAssistantTurn ==
    /\ Len(cap.short) <= 1 /\ Len(cap.log) <= 1
    /\ (cap.short # <<>> \/ cap.log # <<>>) => cap.sent = cap.chunks
    /\ cap.pc = "closed" =>
          IF Join(SentDeltas) = ""
          THEN cap.short = <<>> /\ cap.log = <<>>
          ELSE cap.short = <<Join(SentDeltas)>> /\ cap.log = <<Join(SentDeltas)>>

\* a response with two different deltas has run to its end
C34_Witness ==
    /\ cap.pc = "closed"
    /\ cap.log = <<"ab">>
    /\ cap.short = <<"ab">>

\* C35: when the client disconnects in the middle of a streaming response,
\* the content collected so far is still appended as the assistant turn to
\* both logs and maybe_promote is still run
C35_TailSurvivesDisconnect ==
    (cap.pc = "cancelled" /\ Join(cap.collected) # "") =>
        /\ cap.short = <<Join(cap.collected)>>
        /\ cap.log = <<Join(cap.collected)>>
        /\ cap.promoted = 1

InitRoute ==
    /\ InitIngest /\ netUp = TRUE /\ InitSessions /\ InitChatIdle
    /\ conv = IdleConv /\ san = IdleSan /\ cb = IdleCodebase
    /\ arch = IdleArchive /\ ext = IdleExtract
    /\ sd = IdleRun /\ tc = IdleCount /\ cap = IdleCapture
    /\ rt \in RouteInputs /\ pt = IdlePlain /\ kg = IdleKg

SpecRoute == InitRoute /\ [][chat_completions_head]_vars

\* C36: a chat request naming an unknown model alias fails with the
\* unknown-model error before anything is written: no session row, no turn
\* in either log, no memory tier and no backend is reached
C36_UnknownModelFailsFirst ==
    rt.model \notin Aliases =>
        /\ rt.effects = <<>>
        /\ rt.pc \in {"resolve", "ValueError"}

\* a request for a model that is no alias has failed
C36_Witness ==
    /\ rt.model = "gpt-4"
    /\ rt.user
    /\ rt.pc = "ValueError"

InitPlain ==
    /\ InitIngest /\ netUp = TRUE /\ InitSessions /\ InitChatIdle
    /\ conv = IdleConv /\ san = IdleSan /\ cb = IdleCodebase
    /\ arch = IdleArchive /\ ext = IdleExtract
    /\ sd = IdleRun /\ tc = IdleCount /\ cap = IdleCapture
    /\ rt = IdleRoute /\ pt \in PlainInputs /\ kg = IdleKg

SpecPlain == InitPlain /\ [][_extract_code_from_plaintext]_vars

\* C37: the blocks of _extract_code_from_plaintext are disjoint line ranges
\* in increasing order, each starts at a code-start line, has at most 200
\* lines, a "{" and at least 20 characters, the indices are 0, 1, 2, ...,
\* and the scan resumes right after a kept block, so that at the end every
\* line is in a kept block or was tested as a code start
C37_PlaintextBlocks ==
    /\ \A b \in DOMAIN pt.blocks :
          LET blk == pt.blocks[b]
          IN  /\ blk.index = b - 1
              /\ blk.first <= blk.last
              /\ blk.last - blk.first + 1 <= MaxBlockLines
              /\ blk.last < pt.lines
              /\ _is_code_start(LineAt(pt.text, blk.first))
              /\ blk.brace
              /\ blk.chars >= MinBlockChars
              /\ b > 1 => pt.blocks[b - 1].last < blk.first
    /\ pt.pc = "done" =>
          \A k \in 0..(pt.lines - 1) :
              \/ k \in pt.tested
              \/ \E b \in DOMAIN pt.blocks :
                    pt.blocks[b].first <= k /\ k <= pt.blocks[b].last

InitKg ==
    /\ InitIngest /\ netUp = TRUE /\ InitSessions /\ InitChatIdle
    /\ conv = IdleConv /\ san = IdleSan /\ cb = IdleCodebase
    /\ arch = IdleArchive /\ ext = IdleExtract
    /\ sd = IdleRun /\ tc = IdleCount /\ cap = IdleCapture
    /\ rt = IdleRoute /\ pt = IdlePlain /\ kg = IdleKg

SpecKg == InitKg /\ [][dispatch]_vars

C39_InitializedOnce ==
    /\ \A r \in KgRequests :
          kg.rq[r].pc \in {"next", "app", "done"} =>
              kg.rq[r].ws \in kg.initialized
    /\ \A w \in KgWorkspaces : kg.calls[w] <= 1 + kg.failures[w]

====
